---- MODULE Spec2Model ----
(***************************************************************************)
(* Model of the Zabbix JSON-RPC client (src/base.go, the revision with the *)
(* per-instance cached VersionInfo, lines 202-478) and of the typed        *)
(* accessors layered on CallWithError (lines 614-694).                     *)
(*                                                                         *)
(* Strings are sequences of one-character strings, so that strings.Split,  *)
(* strconv.ParseInt and "Bearer "+token are computed, not assumed.         *)
(* A nil pointer is the empty sequence, a non-nil pointer <<value>>.       *)
(***************************************************************************)
EXTENDS Integers, Sequences, FiniteSets, TLC

\* ------------------------------------------------------------------ bounds

\* Requests one client instance may build in one behaviour (caps api.id).
MaxId == 5

\* Largest numeric component of a version string in the parsing specification.
MaxComponent == 11

\* Goroutines that call one shared client instance at the same time.
NumCallers == 2

\* ------------------------------------------------------- strings, pointers

Nil == <<>>

Ptr(x) == <<x>>

EmptyString == <<>>

DigitChars == <<"0", "1", "2", "3", "4", "5", "6", "7", "8", "9">>

Dot == "."

\* The method name the client special-cases.
APIInfoVersion == "APIInfo.version"

UserLogin == "user.login"

Bearer == <<"B", "e", "a", "r", "e", "r", " ">>

\* ------------------------------------------------------------ environment

\* Decimal rendering of a natural number (what the server prints).
RECURSIVE FormatInt(_)
FormatInt(n) ==
    IF n < 10 THEN <<DigitChars[n + 1]>>
    ELSE FormatInt(n \div 10) \o <<DigitChars[(n % 10) + 1]>>

\* A release-candidate component, such as the "0rc1" of "7.0.0rc1".
RC == 0 - 1

\* One component of a server version: a number, or a release-candidate one.
FormatComponent(c) ==
    IF c >= 0 THEN FormatInt(c) ELSE <<"0", "r", "c", "1">>

\* The version string a server reports: its components joined with dots.
RECURSIVE FormatVersion(_)
FormatVersion(comps) ==
    IF Len(comps) = 0 THEN EmptyString
    ELSE IF Len(comps) = 1 THEN FormatComponent(comps[1])
    ELSE FormatComponent(comps[1]) \o <<Dot>> \o FormatVersion(Tail(comps))

\* Versions the server may run: 7.4.0, 7.0.0rc1, 6.4, 6.0.5, and the
\* malformed "7".
ServerVersions == { <<7, 4, 0>>, <<7, 0, RC>>, <<6, 4>>, <<6, 0, 5>>, <<7>> }

Token1 == <<"t", "1">>

Token2 == <<"t", "2">>

Tokens == {Token1, Token2}

\* What can happen to one HTTP exchange.
\*   neterr   client.Do or reading the body fails
\*   garbage  the body is not JSON     rpcerr   envelope with an error object
\*   odd      envelope without error whose result is null
\*   ok       envelope without error and with the method's usual result
\*            (for user.login the token tok)
Modes ==
    { [k |-> "neterr", code |-> 0, tok |-> EmptyString],
      [k |-> "garbage", code |-> 0, tok |-> EmptyString],
      [k |-> "rpcerr", code |-> -32602, tok |-> EmptyString],
      [k |-> "odd", code |-> 0, tok |-> EmptyString],
      [k |-> "ok", code |-> 0, tok |-> Token1],
      [k |-> "ok", code |-> 0, tok |-> Token2] }

NullResult == [t |-> "null", s |-> EmptyString]

ListResult == [t |-> "list", s |-> EmptyString]

StringResult(s) == [t |-> "string", s |-> s]

NoBody == [json |-> "none", error |-> Nil, result |-> NullResult]

Garbage == [json |-> "garbage", error |-> Nil, result |-> NullResult]

Envelope(error, result) == [json |-> "envelope", error |-> error, result |-> result]

\* The body the server answers to a request of `method` in mode `mode`.
ServerReply(mode, method, srv) ==
    CASE mode.k = "garbage" -> Garbage
      [] mode.k = "rpcerr" -> Envelope(Ptr(mode.code), NullResult)
      [] mode.k = "odd" -> Envelope(Nil, NullResult)
      [] mode.k = "ok" ->
            IF method = APIInfoVersion
            THEN Envelope(Nil, StringResult(FormatVersion(srv)))
            ELSE IF method = UserLogin
            THEN Envelope(Nil, StringResult(mode.tok))
            ELSE Envelope(Nil, ListResult)
      [] OTHER -> NoBody

\* --------------------------------------------------------- errors, panics

NoErr == [kind |-> "nil", code |-> 0]

MarshalErr == [kind |-> "marshal", code |-> 0]

NewRequestErr == [kind |-> "newrequest", code |-> 0]

TransportErr == [kind |-> "transport", code |-> 0]

UnmarshalErr == [kind |-> "unmarshal", code |-> 0]

FormatErr == [kind |-> "format", code |-> 0]

\* *Error: the typed remote error carrying the numeric code.
RemoteErr(code) == [kind |-> "remote", code |-> code]

NoPanic == "none"

\* A failed type assertion response.Result.(T).
TypeAssertPanic == "typeassert"

\* A read through a nil *VersionInfo.
NilDerefPanic == "nilderef"

\* ------------------------------------------------- strings.Split, ParseInt

HasSep(s, sep) == \E i \in 1..Len(s) : s[i] = sep

FirstSep(s, sep) == CHOOSE i \in 1..Len(s) : s[i] = sep /\ \A j \in 1..(i - 1) : s[j] # sep

\* strings.Split(s, sep) for a one-character separator: Split("", ".") is [""].
RECURSIVE Split(_, _)
Split(s, sep) ==
    IF ~HasSep(s, sep) THEN <<s>>
    ELSE <<SubSeq(s, 1, FirstSep(s, sep) - 1)>>
             \o Split(SubSeq(s, FirstSep(s, sep) + 1, Len(s)), sep)

IsDigit(ch) == \E d \in 1..10 : DigitChars[d] = ch

DigitValue(ch) == (CHOOSE d \in 1..10 : DigitChars[d] = ch) - 1

RECURSIVE DigitsValue(_)
DigitsValue(s) ==
    IF Len(s) = 0 THEN 0
    ELSE 10 * DigitsValue(SubSeq(s, 1, Len(s) - 1)) + DigitValue(s[Len(s)])

\* strconv.ParseInt(s, 10, 64): an optional sign and decimal digits; on a
\* syntax error the value is 0.  (A range error needs 19 digits or more.)
ParseInt(s) ==
    LET signed == Len(s) > 0 /\ s[1] \in {"+", "-"}
        digits == IF signed THEN Tail(s) ELSE s
        ok == Len(digits) > 0 /\ \A i \in 1..Len(digits) : IsDigit(digits[i])
    IN  [v |-> IF ~ok THEN 0
               ELSE IF signed /\ s[1] = "-" THEN 0 - DigitsValue(digits)
               ELSE DigitsValue(digits),
         ok |-> ok]

\* ------------------------------------------------------------- the client

\* type VersionInfo
VersionInfo(v, major, minor, patch, useBearer, useUsername) ==
    [Version |-> v, Major |-> major, Minor |-> minor, Patch |-> patch,
     UseBearer |-> useBearer, UseUsername |-> useUsername]

\* NewAPI(url): the zero token, the zero counter, no cached version.
\* urlOK says whether http.NewRequest accepts the url.
NewAPI(urlOK) ==
    [Auth |-> EmptyString, id |-> 0, versionInfo |-> Nil, urlOK |-> urlOK]

\* The largest value of the int32 counter api.id.
MaxInt32 == 2147483647

\* atomic.AddInt32(&api.id, d) for d > 0: the sum wraps around at 2^31.
AddInt32(x, d) ==
    IF x > MaxInt32 - d
    THEN (0 - MaxInt32) - 1 + (d - 1 - (MaxInt32 - x))
    ELSE x + d

\* type Params and the map[string]string of Login: key/value pairs; ok says
\* whether encoding/json can marshal the values.
Params(kv, ok) == [kv |-> kv, ok |-> ok]

ParamKeys(params) == {p[1] : p \in params.kv}

\* json.Marshal(request): `auth` is omitempty, so an empty Auth leaves the
\* field out (Nil); a value that cannot be marshalled fails.
Marshal(jsonobj) ==
    [err |-> IF jsonobj.Params.ok THEN NoErr ELSE MarshalErr,
     b |-> [jsonrpc |-> jsonobj.Jsonrpc, method |-> jsonobj.Method,
            params |-> jsonobj.Params,
            auth |-> IF jsonobj.Auth = EmptyString THEN Nil ELSE Ptr(jsonobj.Auth),
            id |-> jsonobj.Id]]

\* json.Unmarshal(b, &response)
Unmarshal(b) ==
    IF b.json = "envelope"
    THEN [err |-> NoErr, response |-> [Error |-> b.error, Result |-> b.result]]
    ELSE [err |-> UnmarshalErr, response |-> [Error |-> Nil, Result |-> NullResult]]

ZeroResponse == [Error |-> Nil, Result |-> NullResult]

\* What one invocation threads through its calls: the API object, the
\* requests handed to client.Do so far, and the outcomes of the exchanges
\* still to come.
Machine(api, wire, net) == [api |-> api, wire |-> wire, net |-> net]

\* The connection of one exchange when callBytes returns.  The transport
\* is made for this one request, with keep-alives on and no idle timeout:
\* once the body is read to its end and closed, the connection of a server
\* that keeps HTTP/1.1 connections alive (servers do by default) goes to
\* the transport's idle pool and stays open; a failed exchange closes it.
TransportConn(reply) == IF reply = NoBody THEN "closed" ELSE "idle"

\* A request as handed to client.Do: body, Authorization header (Nil when
\* absent), the body that came back (NoBody when the exchange failed), the
\* token and cached descriptor the client held when it sent the request,
\* and the state of the connection when callBytes returns.
WireEntry(body, authorization, reply, api) ==
    [body |-> body, authorization |-> authorization, reply |-> reply,
     Auth |-> api.Auth, versionInfo |-> api.versionInfo,
     conn |-> TransportConn(reply)]

BytesResult(m, b, err, panic) == [m |-> m, b |-> b, err |-> err, panic |-> panic]

\* type request
Request(method, params, auth, id) ==
    [Jsonrpc |-> "2.0", Method |-> method, Params |-> params, Auth |-> auth, Id |-> id]

\* Mutant: the token stays in the JSON body in bearer mode too.
BuildRequest_AuthAlways(api, method, params, id, useBearer) ==
    Request(method, params,
            IF method # APIInfoVersion THEN api.Auth ELSE EmptyString, id)

\* Mutant: the auth field is filled for APIInfo.version as well.
BuildRequest_AuthOnVersion(api, method, params, id, useBearer) ==
    IF useBearer THEN Request(method, params, EmptyString, id)
    ELSE Request(method, params, api.Auth, id)

\* callBytes, the request object: no auth in bearer mode, else the token,
\* except for APIInfo.version.
BuildRequest(api, method, params, id, useBearer) ==
    IF useBearer THEN Request(method, params, EmptyString, id)
    ELSE Request(method, params,
                 IF method # APIInfoVersion THEN api.Auth ELSE EmptyString, id)

\* callBytes, the Authorization header (Nil: none).
\* Mutant: in bearer mode the header is added whatever the token.
AuthorizationHeader_NoEmptyCheck(api, method, useBearer) ==
    IF useBearer /\ method # APIInfoVersion
    THEN Ptr(Bearer \o api.Auth) ELSE Nil

AuthorizationHeader(api, method, useBearer) ==
    IF useBearer /\ method # APIInfoVersion /\ api.Auth # EmptyString
    THEN Ptr(Bearer \o api.Auth) ELSE Nil

\* Mutant: the counter is put back when the request fails, so that the next
\* request takes the same id again.
SendRequest_ReuseOnFailure(m, srv, method, params, useBearer) ==
    LET id == AddInt32(m.api.id, 1)
        api1 == [m.api EXCEPT !.id = id]
        m1 == [m EXCEPT !.api = api1]
        mar == Marshal(BuildRequest(api1, method, params, id, useBearer))
        authorization == AuthorizationHeader(api1, method, useBearer)
        reply == ServerReply(Head(m1.net), method, srv)
        m2 == [m1 EXCEPT !.wire = Append(@, WireEntry(mar.b, authorization, reply, api1)),
                         !.net = Tail(@)]
    IN  IF mar.err # NoErr THEN BytesResult(m, NoBody, mar.err, NoPanic)
        ELSE IF ~api1.urlOK THEN BytesResult(m, NoBody, NewRequestErr, NoPanic)
        ELSE IF reply = NoBody
        THEN BytesResult([m2 EXCEPT !.api = m.api], NoBody, TransportErr, NoPanic)
        ELSE BytesResult(m2, reply, NoErr, NoPanic)

\* callBytes from the id increment on, useBearer decided.
SendRequest(m, srv, method, params, useBearer) ==
    LET id == AddInt32(m.api.id, 1)
        api1 == [m.api EXCEPT !.id = id]
        m1 == [m EXCEPT !.api = api1]
        mar == Marshal(BuildRequest(api1, method, params, id, useBearer))
        authorization == AuthorizationHeader(api1, method, useBearer)
        reply == ServerReply(Head(m1.net), method, srv)
        m2 == [m1 EXCEPT !.wire = Append(@, WireEntry(mar.b, authorization, reply, api1)),
                         !.net = Tail(@)]
    IN  IF mar.err # NoErr THEN BytesResult(m1, NoBody, mar.err, NoPanic)
        ELSE IF ~api1.urlOK THEN BytesResult(m1, NoBody, NewRequestErr, NoPanic)
        ELSE IF reply = NoBody THEN BytesResult(m2, NoBody, TransportErr, NoPanic)
        ELSE BytesResult(m2, reply, NoErr, NoPanic)

RECURSIVE callBytes(_, _, _, _)
RECURSIVE Call(_, _, _, _)
RECURSIVE CallWithError(_, _, _, _)
RECURSIVE Version(_, _)

CallResult(m, response, err, panic) ==
    [m |-> m, response |-> response, err |-> err, panic |-> panic]

ValueResult(m, v, err, panic) == [m |-> m, v |-> v, err |-> err, panic |-> panic]

\* No detection was needed: the descriptor is cached, or the method is
\* APIInfo.version.
NotDetected(m) == ValueResult(m, EmptyString, NoErr, NoPanic)

\* Mutant: the error of the automatic detection is dropped.
callBytesSend_IgnoreDetectError(ver, srv, method, params) ==
    IF ver.panic # NoPanic THEN BytesResult(ver.m, NoBody, NoErr, ver.panic)
    ELSE IF method # APIInfoVersion /\ ver.m.api.versionInfo = Nil
    THEN BytesResult(ver.m, NoBody, NoErr, NilDerefPanic)
    ELSE SendRequest(ver.m, srv, method, params,
                     IF method # APIInfoVersion
                     THEN ver.m.api.versionInfo[1].UseBearer ELSE FALSE)

\* callBytes after the detection `ver` (if any): the early return on its
\* error, the read of the cached UseBearer, and the request.
callBytesSend(ver, srv, method, params) ==
    IF ver.panic # NoPanic THEN BytesResult(ver.m, NoBody, NoErr, ver.panic)
    ELSE IF ver.err # NoErr THEN BytesResult(ver.m, NoBody, ver.err, NoPanic)
    ELSE IF method # APIInfoVersion /\ ver.m.api.versionInfo = Nil
    THEN BytesResult(ver.m, NoBody, NoErr, NilDerefPanic)
    ELSE SendRequest(ver.m, srv, method, params,
                     IF method # APIInfoVersion
                     THEN ver.m.api.versionInfo[1].UseBearer ELSE FALSE)

\* func (api *API) callBytes(method, params)
callBytes(m, srv, method, params) ==
    callBytesSend(IF method # APIInfoVersion /\ m.api.versionInfo = Nil
                  THEN Version(m, srv) ELSE NotDetected(m),
                  srv, method, params)

\* Call after callBytes: json.Unmarshal of the body when there was no error.
CallUnmarshal(r) ==
    IF r.panic # NoPanic THEN CallResult(r.m, ZeroResponse, NoErr, r.panic)
    ELSE IF r.err # NoErr THEN CallResult(r.m, ZeroResponse, r.err, NoPanic)
    ELSE CallResult(r.m, Unmarshal(r.b).response, Unmarshal(r.b).err, NoPanic)

\* func (api *API) Call(method, params)
Call(m, srv, method, params) == CallUnmarshal(callBytes(m, srv, method, params))

\* CallWithError after Call: err becomes response.Error when the former is
\* nil and the latter is not.
PromoteError(r) ==
    IF r.panic = NoPanic /\ r.err = NoErr /\ r.response.Error # Nil
    THEN CallResult(r.m, r.response, RemoteErr(r.response.Error[1]), NoPanic)
    ELSE r

\* func (api *API) CallWithError(method, params)
CallWithError(m, srv, method, params) == PromoteError(Call(m, srv, method, params))

\* Mutant: the bearer threshold of the README (7.4) instead of 7.2.
ParseVersion_Bearer74(v) ==
    LET verArr == Split(v, Dot)
        major == ParseInt(verArr[1]).v
        minor == ParseInt(verArr[2]).v
        patch == IF Len(verArr) >= 3 THEN ParseInt(verArr[3]).v ELSE 0
    IN  VersionInfo(v, major, minor, patch,
                    major > 7 \/ (major = 7 /\ minor >= 4),
                    major > 6 \/ (major = 6 /\ minor >= 4))

\* Mutant: the "username" field is for the 6.x servers from 6.4 only.
ParseVersion_UsernameOnly6(v) ==
    LET verArr == Split(v, Dot)
        major == ParseInt(verArr[1]).v
        minor == ParseInt(verArr[2]).v
        patch == IF Len(verArr) >= 3 THEN ParseInt(verArr[3]).v ELSE 0
    IN  VersionInfo(v, major, minor, patch,
                    major > 7 \/ (major = 7 /\ minor >= 2),
                    major = 6 /\ minor >= 4)

\* Version: the parse of the reported string into the cached descriptor.
ParseVersion(v) ==
    LET verArr == Split(v, Dot)
        major == ParseInt(verArr[1]).v
        minor == ParseInt(verArr[2]).v
        patch == IF Len(verArr) >= 3 THEN ParseInt(verArr[3]).v ELSE 0
    IN  VersionInfo(v, major, minor, patch,
                    major > 7 \/ (major = 7 /\ minor >= 2),
                    major > 6 \/ (major = 6 /\ minor >= 4))

\* Mutant: a missing minor component is read as 0 and the result is cached.
VersionCache_PadMissing(r) ==
    IF r.panic # NoPanic THEN ValueResult(r.m, EmptyString, NoErr, r.panic)
    ELSE IF r.err # NoErr THEN ValueResult(r.m, EmptyString, r.err, NoPanic)
    ELSE IF r.response.Result.t # "string"
    THEN ValueResult(r.m, EmptyString, NoErr, TypeAssertPanic)
    ELSE ValueResult([r.m EXCEPT !.api.versionInfo =
                         Ptr(ParseVersion(IF Len(Split(r.response.Result.s, Dot)) < 2
                                          THEN r.response.Result.s \o <<Dot, "0">>
                                          ELSE r.response.Result.s))],
                     r.response.Result.s, NoErr, NoPanic)

\* Version after its CallWithError: the type assertion, the format check
\* and the cache.
VersionCache(r) ==
    IF r.panic # NoPanic THEN ValueResult(r.m, EmptyString, NoErr, r.panic)
    ELSE IF r.err # NoErr THEN ValueResult(r.m, EmptyString, r.err, NoPanic)
    ELSE IF r.response.Result.t # "string"
    THEN ValueResult(r.m, EmptyString, NoErr, TypeAssertPanic)
    ELSE IF Len(Split(r.response.Result.s, Dot)) < 2
    THEN ValueResult(r.m, r.response.Result.s, FormatErr, NoPanic)
    ELSE ValueResult([r.m EXCEPT !.api.versionInfo =
                                     Ptr(ParseVersion(r.response.Result.s))],
                     r.response.Result.s, NoErr, NoPanic)

\* func (api *API) Version()
Version(m, srv) == VersionCache(CallWithError(m, srv, APIInfoVersion, Params({}, TRUE)))

\* Mutant: the token is stored before the error is looked at.
LoginStore_BeforeCheck(r) ==
    IF r.panic # NoPanic THEN ValueResult(r.m, EmptyString, NoErr, r.panic)
    ELSE IF r.err # NoErr
    THEN ValueResult([r.m EXCEPT !.api.Auth = r.response.Result.s],
                     EmptyString, r.err, NoPanic)
    ELSE IF r.response.Result.t # "string"
    THEN ValueResult(r.m, EmptyString, NoErr, TypeAssertPanic)
    ELSE ValueResult([r.m EXCEPT !.api.Auth = r.response.Result.s],
                     r.response.Result.s, NoErr, NoPanic)

\* Login after its CallWithError: the type assertion and api.Auth = auth.
LoginStore(r) ==
    IF r.panic # NoPanic THEN ValueResult(r.m, EmptyString, NoErr, r.panic)
    ELSE IF r.err # NoErr THEN ValueResult(r.m, EmptyString, r.err, NoPanic)
    ELSE IF r.response.Result.t # "string"
    THEN ValueResult(r.m, EmptyString, NoErr, TypeAssertPanic)
    ELSE ValueResult([r.m EXCEPT !.api.Auth = r.response.Result.s],
                     r.response.Result.s, NoErr, NoPanic)

\* Mutant: the credential field is always "user".
LoginParams_AlwaysUser(versionInfo, user, password) ==
    Params({<<"user", user>>, <<"password", password>>}, TRUE)

\* Login: the credential field is "username" for 6.4 and later, else "user".
LoginParams(versionInfo, user, password) ==
    Params({<<IF versionInfo.UseUsername THEN "username" ELSE "user", user>>,
            <<"password", password>>}, TRUE)

\* Login after the detection `ver` (if any): the early return on its error,
\* the read of the cached UseUsername, and the user.login call.
LoginCall(ver, srv, user, password) ==
    IF ver.panic # NoPanic THEN ValueResult(ver.m, EmptyString, NoErr, ver.panic)
    ELSE IF ver.err # NoErr THEN ValueResult(ver.m, EmptyString, ver.err, NoPanic)
    ELSE IF ver.m.api.versionInfo = Nil
    THEN ValueResult(ver.m, EmptyString, NoErr, NilDerefPanic)
    ELSE LoginStore(CallWithError(ver.m, srv, UserLogin,
                        LoginParams(ver.m.api.versionInfo[1], user, password)))

\* Mutant: Login queries the version on every call, cached or not.
Login_AlwaysDetect(m, srv, user, password) ==
    LoginCall(Version(m, srv), srv, user, password)

\* func (api *API) Login(user, password)
Login(m, srv, user, password) ==
    LoginCall(IF m.api.versionInfo = Nil THEN Version(m, srv) ELSE NotDetected(m),
              srv, user, password)

\* Mutant: the token is taken back when the version query fails.
SetAuth_RollbackOnFailure(m, srv, auth) ==
    IF Version([m EXCEPT !.api.Auth = auth], srv).err # NoErr
    THEN ValueResult([Version([m EXCEPT !.api.Auth = auth], srv).m
                         EXCEPT !.api.Auth = m.api.Auth],
                     EmptyString, Version([m EXCEPT !.api.Auth = auth], srv).err, NoPanic)
    ELSE ValueResult(Version([m EXCEPT !.api.Auth = auth], srv).m, EmptyString,
                     Version([m EXCEPT !.api.Auth = auth], srv).err,
                     Version([m EXCEPT !.api.Auth = auth], srv).panic)

\* Mutant: the version is queried only while no descriptor is cached.
SetAuth_SkipWhenCached(m, srv, auth) ==
    IF m.api.versionInfo = Nil
    THEN ValueResult(Version([m EXCEPT !.api.Auth = auth], srv).m, EmptyString,
                     Version([m EXCEPT !.api.Auth = auth], srv).err,
                     Version([m EXCEPT !.api.Auth = auth], srv).panic)
    ELSE ValueResult([m EXCEPT !.api.Auth = auth], EmptyString, NoErr, NoPanic)

\* SetAuth returns only the error of Version.
ErrorOnly(r) == ValueResult(r.m, EmptyString, r.err, r.panic)

\* func (api *API) SetAuth(auth)
SetAuth(m, srv, auth) == ErrorOnly(Version([m EXCEPT !.api.Auth = auth], srv))

\* func (api *API) GetVersionInfo()
GetVersionInfo(api) == api.versionInfo

\* The default parameters a typed accessor adds when the caller left them out.
WithDefault(params, key, value) ==
    IF key \in ParamKeys(params) THEN params
    ELSE Params(params.kv \cup {<<key, value>>}, params.ok)

\* The result conversion of a typed accessor: response.Result.([]interface{}).
AccessorResult(r) ==
    IF r.panic # NoPanic THEN ValueResult(r.m, EmptyString, NoErr, r.panic)
    ELSE IF r.err # NoErr THEN ValueResult(r.m, EmptyString, r.err, NoPanic)
    ELSE IF r.response.Result.t # "list"
    THEN ValueResult(r.m, EmptyString, NoErr, TypeAssertPanic)
    ELSE ValueResult(r.m, EmptyString, NoErr, NoPanic)

\* func (api *API) HostInterfacesGet(params)
HostInterfacesGet(m, srv, params) ==
    AccessorResult(CallWithError(m, srv, "hostinterface.get",
        WithDefault(WithDefault(params, "output", "extend"), "limit", "100")))

\* func (api *API) HistoryGet(params)
HistoryGet(m, srv, params) ==
    AccessorResult(CallWithError(m, srv, "history.get",
        WithDefault(WithDefault(WithDefault(params, "output", "extend"),
                                "limit", "100"), "history", "0")))

\* ------------------------------------------------------- bytes and text

\* The printable ASCII characters, from the space (code 32) to the tilde
\* (the grave accent, code 96, by name).
Printable ==
    <<" ", "!", "\"", "#", "$", "%", "&", "'", "(", ")", "*", "+", ",", "-",
      ".", "/", "0", "1", "2", "3", "4", "5", "6", "7", "8", "9", ":", ";",
      "<", "=", ">", "?", "@", "A", "B", "C", "D", "E", "F", "G", "H", "I",
      "J", "K", "L", "M", "N", "O", "P", "Q", "R", "S", "T", "U", "V", "W",
      "X", "Y", "Z", "[", "\\", "]", "^", "_", "grave", "a", "b", "c", "d", "e",
      "f", "g", "h", "i", "j", "k", "l", "m", "n", "o", "p", "q", "r", "s",
      "t", "u", "v", "w", "x", "y", "z", "{", "|", "}", "~">>

\* The byte of a character.
CodeTable ==
    [ch \in {Printable[i] : i \in 1..Len(Printable)} \cup {"\n", "\r"} |->
        CASE ch = "\n" -> 10
          [] ch = "\r" -> 13
          [] OTHER -> 31 + CHOOSE i \in 1..Len(Printable) : Printable[i] = ch]

Code(ch) == CodeTable[ch]

\* []byte(s)
Bytes(s) == [i \in 1..Len(s) |-> Code(s[i])]

\* The k low bytes of n, the least significant first.
RECURSIVE LittleEndian(_, _)
LittleEndian(n, k) ==
    IF k = 0 THEN <<>> ELSE <<n % 256>> \o LittleEndian(n \div 256, k - 1)

\* binary.LittleEndian.PutUint64(length, uint64(n))
PutUint64(n) == LittleEndian(n, 8)

\* Mutant: the length is read with the most significant byte first.
Uint64_BigEndian(b) ==
    [v |-> b[8] + 256 * b[7] + 65536 * b[6],
     big |-> \E i \in 1..5 : b[i] # 0,
     huge |-> b[1] # 0 \/ b[2] # 0]

\* binary.Read(..., binary.LittleEndian, &dataLen) of 8 bytes: the value of
\* the three low bytes, whether a higher byte makes the length 2^24 or more,
\* and whether it is 2^48 or more (beyond what make([]byte, n) accepts).
Uint64(b) ==
    [v |-> b[1] + 256 * b[2] + 65536 * b[3],
     big |-> \E i \in 4..8 : b[i] # 0,
     huge |-> b[7] # 0 \/ b[8] # 0]

\* ------------------------------------------------------------ encoding/json

\* The escape of one character inside a JSON string, as encoding/json
\* writes it (HTML-safe).
Escape(ch) ==
    CASE ch = "\"" -> <<"\\", "\"">>
      [] ch = "\\" -> <<"\\", "\\">>
      [] ch = "<" -> <<"\\", "u", "0", "0", "3", "c">>
      [] ch = ">" -> <<"\\", "u", "0", "0", "3", "e">>
      [] ch = "&" -> <<"\\", "u", "0", "0", "2", "6">>
      [] OTHER -> <<ch>>

RECURSIVE EscapeAll(_)
EscapeAll(s) == IF Len(s) = 0 THEN <<>> ELSE Escape(Head(s)) \o EscapeAll(Tail(s))

\* A Go string as a JSON string.
Quote(s) == <<"\"">> \o EscapeAll(s) \o <<"\"">>

\* An int64 in decimal.
FormatInt64(n) == IF n < 0 THEN <<"-">> \o FormatInt(0 - n) ELSE FormatInt(n)

\* ------------------------------------------------------------- the sender

\* type SenderData
SenderData(host, key, value, clock) ==
    [Host |-> host, Key |-> key, Value |-> value, Clock |-> clock]

\* type SenderResponse
SenderResponse(response, info) == [Response |-> response, Info |-> info]

\* NewSender(server, port); Timeout in seconds.
NewSender(server, port) ==
    [Server |-> server, Port |-> IF port = 0 THEN 10051 ELSE port, Timeout |-> 5]

\* json.Marshal of one SenderData: clock is omitempty.
MarshalItem(d) ==
    <<"{", "\"", "h", "o", "s", "t", "\"", ":">> \o Quote(d.Host)
        \o <<",", "\"", "k", "e", "y", "\"", ":">> \o Quote(d.Key)
        \o <<",", "\"", "v", "a", "l", "u", "e", "\"", ":">> \o Quote(d.Value)
        \o (IF d.Clock = 0 THEN <<>>
            ELSE <<",", "\"", "c", "l", "o", "c", "k", "\"", ":">> \o FormatInt64(d.Clock))
        \o <<"}">>

RECURSIVE MarshalItems(_)
MarshalItems(data) ==
    IF Len(data) = 0 THEN <<>>
    ELSE IF Len(data) = 1 THEN MarshalItem(data[1])
    ELSE MarshalItem(data[1]) \o <<",">> \o MarshalItems(Tail(data))

\* json.Marshal(data) for data []SenderData (it cannot fail on this type).
MarshalBatch(data) == <<"[">> \o MarshalItems(data) \o <<"]">>

\* "ZBXD\x01"
ZBXDHeader == Bytes(<<"Z", "B", "X", "D">>) \o <<1>>

\* Mutant: the length is written with the most significant byte first.
BuildPacket_BigEndian(s, data) ==
    ZBXDHeader
        \o [i \in 1..8 |-> PutUint64(Len(data))[9 - i]]
        \o data

\* func (s *Sender) BuildPacket(data []byte) []byte
BuildPacket(s, data) == ZBXDHeader \o PutUint64(Len(data)) \o data

\* The acknowledgements a server sends.
AckSuccess == <<"{", "\"", "r", "e", "s", "p", "o", "n", "s", "e", "\"", ":", "\"", "s", "u", "c", "c", "e", "s", "s", "\"", ",", "\"", "i", "n", "f", "o", "\"", ":", "\"", "o", "k", "\"", "}">>

AckFailed == <<"{", "\"", "r", "e", "s", "p", "o", "n", "s", "e", "\"", ":", "\"", "f", "a", "i", "l", "e", "d", "\"", ",", "\"", "i", "n", "f", "o", "\"", ":", "\"", "b", "a", "d", "\"", "}">>

\* json.Unmarshal(responseData, &response) for the bodies the servers of
\* this model send: the two acknowledgements, the empty object (no field is
\* set), and bodies that are not a JSON object.
UnmarshalAck(b) ==
    CASE b = Bytes(AckSuccess) ->
            [err |-> NoErr, response |-> SenderResponse("success", "ok")]
      [] b = Bytes(AckFailed) ->
            [err |-> NoErr, response |-> SenderResponse("failed", "bad")]
      [] b = Bytes(<<"{", "}">>) ->
            [err |-> NoErr, response |-> SenderResponse("", "")]
      [] OTHER -> [err |-> UnmarshalErr, response |-> SenderResponse("", "")]

\* An error of the sender or of the agent client, made with fmt.Errorf.
LocalErr(kind) == [kind |-> kind, code |-> 0]

\* make([]byte, dataLen) with a length beyond the largest allocation.
MakeSlicePanic == "makeslice"

\* One TCP connection of an invocation: whether net.DialTimeout returned
\* it, the deadlines set on it, what was written to it, how many reads
\* were made from it, and whether it was closed when the invocation returned.
Conn(opened, deadlines, written, reads, closed) ==
    [opened |-> opened, deadlines |-> deadlines, written |-> written,
     reads |-> reads, closed |-> closed]

\* What SendBatch leaves behind: the caller's slice, the connections, and
\* what it returned.
SendResult(data, conns, response, err, panic) ==
    [data |-> data, conns |-> conns, response |-> response, v |-> EmptyString,
     err |-> err, panic |-> panic]

\* Mutant: the time is read again for every item.
FillClocks_PerItem(data, now) ==
    [i \in 1..Len(data) |->
        IF data[i].Clock = 0 THEN [data[i] EXCEPT !.Clock = now + i - 1]
        ELSE data[i]]

\* SendBatch, the loop that sets the clocks: one `now` for all items.
FillClocks(data, now) ==
    [i \in 1..Len(data) |->
        IF data[i].Clock = 0 THEN [data[i] EXCEPT !.Clock = now] ELSE data[i]]

\* What the decoding steps of SendBatch make of the bytes a peer sent.
Decoded(kind, data, reads, panic) ==
    [kind |-> kind, data |-> data, reads |-> reads, panic |-> panic]

\* SendBatch, the decoding of the response: the 13 bytes of the header,
\* the magic, the length, the body of that length.  reply is what the
\* peer sends before it closes the connection.
ReadResponse(reply) ==
    LET header == SubSeq(reply, 1, 13)
        dataLen == Uint64(SubSeq(header, 6, 13))
    IN  IF Len(reply) < 13
        THEN Decoded("readheader", <<>>, 1, NoPanic)
        ELSE IF SubSeq(header, 1, 5) # ZBXDHeader
        THEN Decoded("invalidheader", <<>>, 1, NoPanic)
        ELSE IF dataLen.v = 0 /\ ~dataLen.big
        THEN Decoded("emptyresponse", <<>>, 1, NoPanic)
        ELSE IF dataLen.huge
        THEN Decoded("none", <<>>, 1, MakeSlicePanic)
        ELSE IF dataLen.big \/ Len(reply) < 13 + dataLen.v
        THEN Decoded("readdata", <<>>, 2, NoPanic)
        ELSE Decoded("ok", SubSeq(reply, 14, 13 + dataLen.v), 2, NoPanic)

\* SendBatch from json.Marshal on: net.fail is the step of the exchange that
\* fails ("none": none) and net.reply the bytes the server sends before it
\* closes the connection.
SendExchange(s, filled, net) ==
    LET packet == BuildPacket(s, Bytes(MarshalBatch(filled)))
        read == ReadResponse(net.reply)
        ack == UnmarshalAck(read.data)
        Fail(conn, kind) == SendResult(filled, <<conn>>, Nil, LocalErr(kind), NoPanic)
        Read == Conn(TRUE, <<"write", "read">>, <<packet>>, read.reads, TRUE)
    IN  IF net.fail = "dial"
        THEN Fail(Conn(FALSE, <<>>, <<>>, 0, FALSE), "connect")
        ELSE IF net.fail = "setwritedeadline"
        THEN Fail(Conn(TRUE, <<>>, <<>>, 0, TRUE), "setwritedeadline")
        ELSE IF net.fail = "write"
        THEN Fail(Conn(TRUE, <<"write">>, <<packet>>, 0, TRUE), "send")
        ELSE IF net.fail = "setreaddeadline"
        THEN Fail(Conn(TRUE, <<"write">>, <<packet>>, 0, TRUE), "setreaddeadline")
        ELSE IF read.panic # NoPanic
        THEN SendResult(filled, <<Read>>, Nil, NoErr, read.panic)
        ELSE IF read.kind # "ok"
        THEN Fail(Read, read.kind)
        ELSE IF ack.err # NoErr
        THEN Fail(Read, "unmarshal")
        ELSE SendResult(filled, <<Read>>, Ptr(ack.response), NoErr, NoPanic)

\* Mutant: the empty batch is not rejected.
SendBatch_NoEmptyCheck(s, data, now, net) ==
    SendExchange(s, FillClocks(data, now), net)

\* func (s *Sender) SendBatch(data []SenderData): `now` is what
\* time.Now().Unix() gives.
SendBatch(s, data, now, net) ==
    IF Len(data) = 0 THEN SendResult(data, <<>>, Nil, LocalErr("nodata"), NoPanic)
    ELSE SendExchange(s, FillClocks(data, now), net)

\* func (s *Sender) Send(data SenderData): a batch of one, in a slice of
\* its own.
Send(s, item, now, net) == SendBatch(s, <<item>>, now, net)

\* func (s *Sender) SetTimeout(timeout)
SenderSetTimeout(s, timeout) == [s EXCEPT !.Timeout = timeout]

\* --------------------------------------------------------- the agent client

\* NewGet(host, port); Timeout in seconds.
NewGet(host, port) ==
    [Host |-> host, Port |-> IF port = 0 THEN 10050 ELSE port, Timeout |-> 5]

\* func (g *Get) SetTimeout(timeout)
GetSetTimeout(g, timeout) == [g EXCEPT !.Timeout = timeout]

\* An error whose text quotes `text`.
TextErr(kind, text) == [kind |-> kind, code |-> 0, text |-> text]

\* What GetValue leaves behind: the connections and what it returned.
GetResult(conns, v, err) ==
    [data |-> <<>>, conns |-> conns, response |-> Nil, v |-> v, err |-> err,
     panic |-> NoPanic]

\* bufio.Reader.ReadString(delim) on what the peer sends before it closes
\* or the deadline passes: the text up to and including the first delim, or
\* an error when there is none.
ReadString(reply, delim) ==
    IF HasSep(reply, delim)
    THEN [line |-> SubSeq(reply, 1, FirstSep(reply, delim)), ok |-> TRUE]
    ELSE [line |-> reply, ok |-> FALSE]

\* strings.TrimRight(s, cutset)
RECURSIVE TrimRight(_, _)
TrimRight(s, cutset) ==
    IF Len(s) > 0 /\ s[Len(s)] \in cutset
    THEN TrimRight(SubSeq(s, 1, Len(s) - 1), cutset) ELSE s

\* strings.HasPrefix(s, prefix)
HasPrefix(s, prefix) ==
    Len(s) >= Len(prefix) /\ SubSeq(s, 1, Len(prefix)) = prefix

NotSupported == <<"Z", "B", "X", "_", "N", "O", "T", "S", "U", "P", "P", "O", "R", "T", "E", "D">>

AgentError == <<"Z", "B", "X", "_", "E", "R", "R", "O", "R">>

\* Mutant: a line with the agent-error sentinel is returned as the value.
Classify_ErrorAsValue(conn, key, line) ==
    IF HasPrefix(TrimRight(line, {"\n", "\r"}), NotSupported)
    THEN GetResult(<<conn>>, EmptyString, TextErr("notsupported", key))
    ELSE GetResult(<<conn>>, TrimRight(line, {"\n", "\r"}), NoErr)

\* GetValue from the response line on.
Classify(conn, key, line) ==
    IF HasPrefix(TrimRight(line, {"\n", "\r"}), NotSupported)
    THEN GetResult(<<conn>>, EmptyString, TextErr("notsupported", key))
    ELSE IF HasPrefix(TrimRight(line, {"\n", "\r"}), AgentError)
    THEN GetResult(<<conn>>, EmptyString,
                   TextErr("agent", TrimRight(line, {"\n", "\r"})))
    ELSE GetResult(<<conn>>, TrimRight(line, {"\n", "\r"}), NoErr)

\* GetValue from net.DialTimeout on.
GetExchange(g, key, net) ==
    LET request == Bytes(key \o <<"\n">>)
        read == ReadString(net.reply, "\n")
    IN  IF net.fail = "dial"
        THEN GetResult(<<Conn(FALSE, <<>>, <<>>, 0, FALSE)>>, EmptyString,
                       LocalErr("connect"))
        ELSE IF net.fail = "setdeadline"
        THEN GetResult(<<Conn(TRUE, <<>>, <<>>, 0, TRUE)>>, EmptyString,
                       LocalErr("setdeadline"))
        ELSE IF net.fail = "write"
        THEN GetResult(<<Conn(TRUE, <<"all">>, <<request>>, 0, TRUE)>>, EmptyString,
                       LocalErr("send"))
        ELSE IF ~read.ok
        THEN GetResult(<<Conn(TRUE, <<"all">>, <<request>>, 1, TRUE)>>, EmptyString,
                       LocalErr("read"))
        ELSE Classify(Conn(TRUE, <<"all">>, <<request>>, 1, TRUE), key, read.line)

\* Mutant: after a failed write the request is tried once more on a new
\* connection.
GetValue_RetryWrite(g, key, net) ==
    IF key = EmptyString THEN GetResult(<<>>, EmptyString, LocalErr("emptykey"))
    ELSE IF net.fail = "write"
    THEN [GetExchange(g, key, net) EXCEPT !.conns = @ \o @]
    ELSE GetExchange(g, key, net)

\* Mutant: the empty key is sent like any other.
GetValue_NoEmptyCheck(g, key, net) == GetExchange(g, key, net)

\* func (g *Get) GetValue(key string)
GetValue(g, key, net) ==
    IF key = EmptyString THEN GetResult(<<>>, EmptyString, LocalErr("emptykey"))
    ELSE GetExchange(g, key, net)

\* GetValue with the clock running: d.connect, d.write and d.read are the
\* times the connect, the write and the response line take, in the unit of
\* g.Timeout.  net.DialTimeout gives up g.Timeout after the start; the
\* deadline of the connection is set once it is there, g.Timeout after
\* that moment, and ends the write or the read that is still going on.
\* The result: the moment the connection was there, the deadline, the
\* moment GetValue returns (all counted from its start), and what it
\* returns.
GetValueTimed(g, key, d) ==
    LET deadline == d.connect + g.Timeout
        Met(fail, reply) == GetValue(g, key, [fail |-> fail, reply |-> reply])
        Timing(connected, dl, elapsed, r) ==
            [connected |-> connected, deadline |-> dl, elapsed |-> elapsed,
             v |-> r.v, err |-> r.err, conns |-> r.conns]
    IN  IF key = EmptyString
        THEN Timing(0, 0, 0, Met("none", <<>>))
        ELSE IF d.connect >= g.Timeout
        THEN Timing(g.Timeout, g.Timeout, g.Timeout, Met("dial", <<>>))
        ELSE IF d.connect + d.write >= deadline
        THEN Timing(d.connect, deadline, deadline, Met("write", <<>>))
        ELSE IF d.connect + d.write + d.read >= deadline
        THEN Timing(d.connect, deadline, deadline, Met("none", <<>>))
        ELSE Timing(d.connect, deadline, d.connect + d.write + d.read,
                    Met("none", <<"1", "\n">>))

\* net.JoinHostPort(g.Host, fmt.Sprintf("%d", g.Port)) for the agents of
\* this model.
Address(g) ==
    (CASE g.Host = "agent" -> <<"a", "g", "e", "n", "t">>
       [] OTHER -> <<"h", "o", "s", "t">>)
        \o <<":">> \o FormatInt64(g.Port)

\* The text of an error of the network, as the operating system words it.
NetErrText == <<"i", "/", "o", " ", "t", "i", "m", "e", "o", "u", "t">>

\* err.Error() of an error GetValue returns.
ErrorText(g, err) ==
    CASE err.kind = "emptykey" -> <<"k", "e", "y", " ", "c", "a", "n", "n", "o", "t", " ", "b", "e", " ", "e", "m", "p", "t", "y">>
      [] err.kind = "connect" ->
            <<"f", "a", "i", "l", "e", "d", " ", "t", "o", " ", "c", "o", "n", "n", "e", "c", "t", " ", "t", "o", " ">>
                \o Address(g) \o <<":", " ">> \o NetErrText
      [] err.kind = "setdeadline" ->
            <<"f", "a", "i", "l", "e", "d", " ", "t", "o", " ", "s", "e", "t", " ", "d", "e", "a", "d", "l", "i", "n", "e", ":", " ">>
                \o NetErrText
      [] err.kind = "send" ->
            <<"f", "a", "i", "l", "e", "d", " ", "t", "o", " ", "s", "e", "n", "d", " ", "r", "e", "q", "u", "e", "s", "t", ":", " ">>
                \o NetErrText
      [] err.kind = "read" ->
            <<"f", "a", "i", "l", "e", "d", " ", "t", "o", " ", "r", "e", "a", "d", " ", "r", "e", "s", "p", "o", "n", "s", "e", ":", " ", "E", "O", "F">>
      [] err.kind = "notsupported" ->
            <<"k", "e", "y", " ", "n", "o", "t", " ", "s", "u", "p", "p", "o", "r", "t", "e", "d", ":", " ">> \o err.text
      [] err.kind = "agent" ->
            <<"a", "g", "e", "n", "t", " ", "e", "r", "r", "o", "r", ":", " ">> \o err.text

\* strings.Join(elems, sep)
RECURSIVE Join(_, _)
Join(elems, sep) ==
    IF Len(elems) = 0 THEN <<>>
    ELSE IF Len(elems) = 1 THEN elems[1]
    ELSE elems[1] \o sep \o Join(Tail(elems), sep)

\* What GetValues has when its loop is at key i: the map, the failure
\* descriptions, and, for the record, the calls of GetValue it made.
ValuesFrame(result, errors, calls) ==
    [result |-> result, errors |-> errors, calls |-> calls]

\* GetValues, one iteration of the loop: GetValue for the key, then the
\* description appended on failure, the map entry set on success.
ValuesStep(g, key, net, f) ==
    LET r == GetValue(g, key, net)
        call == [key |-> key, v |-> r.v, err |-> r.err, conns |-> r.conns]
    IN  IF r.err # NoErr
        THEN ValuesFrame(f.result,
                         Append(f.errors, key \o <<":", " ">> \o ErrorText(g, r.err)),
                         Append(f.calls, call))
        ELSE ValuesFrame((key :> r.v) @@ f.result, f.errors, Append(f.calls, call))

\* Mutant: the loop ends at the first key that fails.
RECURSIVE ValuesLoop_StopAtFailure(_, _, _, _, _)
ValuesLoop_StopAtFailure(g, keys, nets, i, f) ==
    IF i > Len(keys) \/ f.errors # <<>> THEN f
    ELSE ValuesLoop_StopAtFailure(g, keys, nets, i + 1, ValuesStep(g, keys[i], nets[i], f))

\* GetValues, the loop from key i on: nets[i] is what the i-th connection
\* meets.
RECURSIVE ValuesLoop(_, _, _, _, _)
ValuesLoop(g, keys, nets, i, f) ==
    IF i > Len(keys) THEN f
    ELSE ValuesLoop(g, keys, nets, i + 1, ValuesStep(g, keys[i], nets[i], f))

\* fmt.Errorf("some keys failed: %s", strings.Join(errors, "; "))
SomeKeysFailed(errors) ==
    TextErr("somekeys", <<"s", "o", "m", "e", " ", "k", "e", "y", "s", " ", "f", "a", "i", "l", "e", "d", ":", " ">>
                            \o Join(errors, <<";", " ">>))

ValuesResult(f, err) ==
    [result |-> f.result, calls |-> f.calls, err |-> err]

\* Mutant: no map when a key failed.
GetValues_DropPartial(g, keys, nets) ==
    LET f == ValuesLoop(g, keys, nets, 1, ValuesFrame(<<>>, <<>>, <<>>))
    IN  IF Len(f.errors) > 0
        THEN ValuesResult(ValuesFrame(<<>>, f.errors, f.calls), SomeKeysFailed(f.errors))
        ELSE ValuesResult(f, NoErr)

\* func (g *Get) GetValues(keys []string)
GetValues(g, keys, nets) ==
    LET f == ValuesLoop(g, keys, nets, 1, ValuesFrame(<<>>, <<>>, <<>>))
    IN  IF Len(f.errors) > 0 THEN ValuesResult(f, SomeKeysFailed(f.errors))
        ELSE ValuesResult(f, NoErr)

\* ------------------------------------- the servers of the sender and agent

\* The largest batch a caller sends.
MaxBatch == 2

\* The longest payload of the packets built on their own.
MaxPayload == 4

Items ==
    { SenderData(<<"h">>, <<"k">>, <<"1">>, 0),
      SenderData(<<"h">>, <<"k">>, <<"<", "\"">>, 50) }

Batches == UNION {[1..n -> Items] : n \in 0..MaxBatch}

\* What time.Now().Unix() may give.
Timestamps == {100, 101}

\* A reply framed by the server: magic, 8 length bytes, body.
ServerFrame(length, body) == ZBXDHeader \o length \o body

\* What a server may send before it closes the connection: well-framed
\* acknowledgements and bodies, and every way of breaking the framing.
SenderReplies ==
    { ServerFrame(PutUint64(Len(AckSuccess)), Bytes(AckSuccess)),
      ServerFrame(PutUint64(Len(AckFailed)), Bytes(AckFailed)),
      ServerFrame(PutUint64(1), Bytes(<<"x">>)),
      ServerFrame(PutUint64(Len(AckSuccess)), Bytes(AckSuccess)) \o <<0>>,
      ServerFrame(PutUint64(0), <<>>),
      ServerFrame(PutUint64(Len(AckSuccess) + 1), Bytes(AckSuccess)),
      ServerFrame(<<0, 0, 0, 1, 0, 0, 0, 0>>, Bytes(AckSuccess)),
      ServerFrame(<<0, 0, 0, 0, 0, 0, 0, 1>>, Bytes(AckSuccess)),
      Bytes(<<"Z", "B", "X", "D">>) \o <<2>> \o PutUint64(1) \o Bytes(<<"x">>),
      ZBXDHeader,
      <<>> }

SenderNets ==
    {[fail |-> f, reply |-> <<>>] :
        f \in {"dial", "setwritedeadline", "write", "setreaddeadline"}}
    \cup {[fail |-> "none", reply |-> reply] : reply \in SenderReplies}

\* The keys a caller asks for.
Keys == {EmptyString, <<"k">>}

\* What an agent may send before it closes the connection.
AgentReplies ==
    { <<"1", "\n">>, <<"\n">>, <<"\r", "\n">>, <<"1">>, <<>>,
      <<"1", "\n", "2", "\n">>,
      NotSupported \o <<"\n">>,
      AgentError \o <<":", " ", "x", "\r", "\n">> }

GetNets ==
    {[fail |-> f, reply |-> <<>>] : f \in {"dial", "setdeadline", "write"}}
    \cup {[fail |-> "none", reply |-> reply] : reply \in AgentReplies}

\* The payloads handed to BuildPacket on its own: every byte string over
\* three byte values up to MaxPayload, and three long ones.
Payloads ==
    UNION {[1..n -> {0, 1, 255}] : n \in 0..MaxPayload}
        \cup {[i \in 1..n |-> 0] : n \in {255, 256, 513}}

\* ------------------------------------------------------- the state machine

VARIABLES
    api,        \* the API object: Auth, id, versionInfo (and whether url is valid)
    srv,        \* the version the server runs, as components
    last,       \* the last invocation: operation, arguments, the API object
                \* before it, the requests it sent, and what it returned
    convAll,    \* conventions ("bearer", "body") of all token-carrying requests
    convSince,  \* the same, since the last successful Version or SetAuth
    peer,       \* a second API object of the process and the version of the
                \* server it talks to (used by SpecTwo only)
    callers,    \* the goroutines inside Call on the shared object: position,
                \* local variables, requests sent (used by SpecConc only)
    sender,     \* the Sender object: Server, Port, Timeout
    get         \* the Get object: Host, Port, Timeout

vars == <<api, srv, last, convAll, convSince, peer, callers, sender, get>>

\* The results of one invocation R under every outcome of its exchanges:
\* the outcome of the second exchange is drawn only when R gets that far.
Outcomes(R(_)) ==
    UNION { LET first == R(<<a, a>>)
            IN  IF first.m.net # <<>> THEN {first}
                ELSE {R(<<a, b>>) : b \in Modes} : a \in Modes }

\* Methods a caller passes to Call and CallWithError.
Methods == {APIInfoVersion, "host.get"}

\* Parameters a caller passes: with output and without limit, unmarshalable.
ParamChoices ==
    { Params({<<"output", "shorten">>}, TRUE), Params({}, FALSE) }

Invocation(op, method, arg, pre, r, response, v) ==
    [op |-> op, method |-> method, arg |-> arg, pre |-> pre, srv |-> srv,
     wire |-> r.m.wire, err |-> r.err, panic |-> r.panic, response |-> response,
     v |-> v, who |-> "api", other |-> peer.api]

\* The convention a request shows on the wire, if it carries a token.
Convention(e) ==
    IF e.authorization # Nil /\ e.body.auth # Nil THEN {"bearer", "body"}
    ELSE IF e.authorization # Nil THEN {"bearer"}
    ELSE IF e.body.auth # Nil THEN {"body"}
    ELSE {}

\* The conventions of the requests of methods other than APIInfo.version.
Conventions(wire) ==
    UNION {Convention(wire[i]) :
               i \in {j \in 1..Len(wire) : wire[j].body.method # APIInfoVersion}}

Start(net) == Machine(api, <<>>, net)

\* Every invocation builds at most two requests.
CanCall == api.id + 2 <= MaxId

Finish(op, method, arg, r, response, v) ==
    /\ api' = r.m.api
    /\ last' = Invocation(op, method, arg, api, r, response, v)
    /\ convAll' = convAll \cup Conventions(r.m.wire)
    /\ convSince' =
          IF op \in {"Version", "SetAuth"} /\ r.err = NoErr /\ r.panic = NoPanic
          THEN Conventions(r.m.wire)
          ELSE convSince \cup Conventions(r.m.wire)
    /\ UNCHANGED <<srv, peer, callers, sender, get>>

DoCall ==
    \E method \in Methods, params \in ParamChoices :
        /\ CanCall
        /\ \E r \in Outcomes(LAMBDA net : Call(Start(net), srv, method, params)) :
              Finish("Call", method, EmptyString, r, r.response, EmptyString)

DoCallWithError ==
    \E method \in Methods, params \in ParamChoices :
        /\ CanCall
        /\ \E r \in Outcomes(LAMBDA net : CallWithError(Start(net), srv, method, params)) :
              Finish("CallWithError", method, EmptyString, r, r.response, EmptyString)

DoLogin ==
    /\ CanCall
    /\ \E r \in Outcomes(LAMBDA net : Login(Start(net), srv, "Admin", "zabbix")) :
          Finish("Login", UserLogin, EmptyString, r, ZeroResponse, r.v)

DoVersion ==
    /\ CanCall
    /\ \E r \in Outcomes(LAMBDA net : Version(Start(net), srv)) :
          Finish("Version", APIInfoVersion, EmptyString, r, ZeroResponse, r.v)

DoSetAuth ==
    \E auth \in {EmptyString, Token1} :
        /\ CanCall
        /\ \E r \in Outcomes(LAMBDA net : SetAuth(Start(net), srv, auth)) :
              Finish("SetAuth", APIInfoVersion, auth, r, ZeroResponse, r.v)

DoHostInterfacesGet ==
    \E params \in ParamChoices :
        /\ CanCall
        /\ \E r \in Outcomes(LAMBDA net : HostInterfacesGet(Start(net), srv, params)) :
              Finish("HostInterfacesGet", "hostinterface.get", EmptyString, r,
                     ZeroResponse, r.v)

DoHistoryGet ==
    \E params \in ParamChoices :
        /\ CanCall
        /\ \E r \in Outcomes(LAMBDA net : HistoryGet(Start(net), srv, params)) :
              Finish("HistoryGet", "history.get", EmptyString, r, ZeroResponse, r.v)

NoInvocation ==
    [op |-> "NewAPI", method |-> "", arg |-> EmptyString, pre |-> NewAPI(TRUE),
     srv |-> <<>>, wire |-> <<>>, err |-> NoErr, panic |-> NoPanic, response |-> ZeroResponse,
     v |-> EmptyString, who |-> "api", other |-> NewAPI(TRUE)]

\* The second API object while only one is in use.
NoPeer == [api |-> NewAPI(TRUE), srv |-> <<>>]

\* The server is replaced by one of another version while the client lives.
ServerUpgrade ==
    \E v \in ServerVersions \ {srv} :
        /\ srv' = v
        /\ last' = [NoInvocation EXCEPT !.op = "ServerUpgrade", !.pre = api, !.srv = v]
        /\ UNCHANGED <<api, convAll, convSince, peer, callers, sender, get>>

Init ==
    /\ \E urlOK \in BOOLEAN :
          /\ api = NewAPI(urlOK)
          /\ last = [NoInvocation EXCEPT !.pre = NewAPI(urlOK)]
    /\ srv \in ServerVersions
    /\ convAll = {}
    /\ convSince = {}
    /\ peer = NoPeer
    /\ callers = <<>>
    /\ sender = NewSender("zabbix", 0)
    /\ get = NewGet("agent", 0)

Next ==
    \/ DoCall
    \/ DoCallWithError
    \/ DoLogin
    \/ DoVersion
    \/ DoSetAuth
    \/ DoHostInterfacesGet
    \/ DoHistoryGet
    \/ ServerUpgrade

Spec == Init /\ [][Next]_vars

\* ------------------------------------------- the version parse on its own

\* Version strings of one to three numeric components.
ParseVersions ==
    UNION { [1..n -> 0..MaxComponent] : n \in 1..3 }

InitParse ==
    /\ api = NewAPI(TRUE)
    /\ last = NoInvocation
    /\ srv \in ParseVersions
    /\ convAll = {}
    /\ convSince = {}
    /\ peer = NoPeer
    /\ callers = <<>>
    /\ sender = NewSender("zabbix", 0)
    /\ get = NewGet("agent", 0)

\* One Version call on a fresh client.
ParseOnce ==
    /\ api.id = 0
    /\ DoVersion

SpecParse == InitParse /\ [][ParseOnce]_vars

\* -------------------------------------- a token, then a call, per version

\* SetAuth or Login on a fresh client.
AuthenticateOnce ==
    /\ api.id = 0
    /\ (DoSetAuth \/ DoLogin)

\* One Call or CallWithError once the version is detected.
CallOnce ==
    /\ api.id <= 2
    /\ api.versionInfo # Nil
    /\ last.op \in {"SetAuth", "Login"}
    /\ (DoCall \/ DoCallWithError)

NextThreshold == AuthenticateOnce \/ CallOnce

\* A client that authenticates against a server of any version of
\* ParseVersions and then calls it.
SpecThreshold == InitParse /\ [][NextThreshold]_vars

\* ------------------------------------------- two instances in one process

\* The two API objects of the process, and the servers they talk to.
Objects == [api |-> api, peer |-> peer.api]

Servers == [api |-> srv, peer |-> peer.srv]

\* Mutant: the cached descriptor is one package-level value, as the version
\* flag of the earlier revisions was: a write through one object shows in
\* the other.
StoreInstance_SharedDescriptor(objs, who, a) ==
    [api |-> IF who = "api" THEN a
             ELSE [objs.api EXCEPT !.versionInfo = a.versionInfo],
     peer |-> IF who = "peer" THEN a
              ELSE [objs.peer EXCEPT !.versionInfo = a.versionInfo]]

\* The writes of a method through its receiver (api *API) reach the fields
\* of that object and nothing else: the package has no variable.
StoreInstance(objs, who, a) == [objs EXCEPT ![who] = a]

\* Both instances together build at most MaxId requests.
TwoCanCall == api.id + peer.api.id + 2 <= MaxId

TwoFinish(who, op, method, arg, r, v) ==
    /\ api' = StoreInstance(Objects, who, r.m.api).api
    /\ peer' = [peer EXCEPT !.api = StoreInstance(Objects, who, r.m.api).peer]
    /\ last' = [Invocation(op, method, arg, Objects[who], r, ZeroResponse, v)
                   EXCEPT !.srv = Servers[who], !.who = who,
                          !.other = Objects[IF who = "api" THEN "peer" ELSE "api"]]
    /\ UNCHANGED <<srv, convAll, convSince, callers, sender, get>>

TwoStart(who, net) == Machine(Objects[who], <<>>, net)

TwoCall ==
    \E who \in DOMAIN Objects :
        /\ TwoCanCall
        /\ \E r \in Outcomes(LAMBDA net : CallWithError(TwoStart(who, net), Servers[who],
                                                       "host.get", Params({}, TRUE))) :
              TwoFinish(who, "CallWithError", "host.get", EmptyString, r, EmptyString)

TwoLogin ==
    \E who \in DOMAIN Objects :
        /\ TwoCanCall
        /\ \E r \in Outcomes(LAMBDA net : Login(TwoStart(who, net), Servers[who],
                                               "Admin", "zabbix")) :
              TwoFinish(who, "Login", UserLogin, EmptyString, r, r.v)

TwoSetAuth ==
    \E who \in DOMAIN Objects :
        /\ TwoCanCall
        /\ \E r \in Outcomes(LAMBDA net : SetAuth(TwoStart(who, net), Servers[who], Token1)) :
              TwoFinish(who, "SetAuth", APIInfoVersion, Token1, r, r.v)

TwoVersion ==
    \E who \in DOMAIN Objects :
        /\ TwoCanCall
        /\ \E r \in Outcomes(LAMBDA net : Version(TwoStart(who, net), Servers[who])) :
              TwoFinish(who, "Version", APIInfoVersion, EmptyString, r, r.v)

\* The versions the second server may run: one on each side of 7.2 and 6.4.
PeerVersions == { <<7, 4, 0>>, <<6, 0, 5>> }

\* Two clients of two servers of different versions.
InitTwo ==
    /\ api = NewAPI(TRUE)
    /\ last = NoInvocation
    /\ srv \in ServerVersions
    /\ \E v \in PeerVersions \ {srv} : peer = [api |-> NewAPI(TRUE), srv |-> v]
    /\ convAll = {}
    /\ convSince = {}
    /\ callers = <<>>
    /\ sender = NewSender("zabbix", 0)
    /\ get = NewGet("agent", 0)

NextTwo == TwoCall \/ TwoLogin \/ TwoSetAuth \/ TwoVersion

SpecTwo == InitTwo /\ [][NextTwo]_vars

\* ------------------------------------------ concurrent callers, one object

\* The frame of one goroutine inside Call("host.get", params): where it is
\* in callBytes, its local id and useBearer, how many requests it has built,
\* the requests it handed to client.Do, the body of the pending version
\* query, whether it assigned api.versionInfo, and what it returned.
NewCaller ==
    [pc |-> "call", id |-> 0, useBearer |-> FALSE, built |-> 0, wire |-> <<>>,
     reply |-> NoBody, stored |-> FALSE, err |-> NoErr, panic |-> NoPanic]

\* A server that answers as asked.
OkMode == [k |-> "ok", code |-> 0, tok |-> Token1]

\* What can happen to an exchange of a concurrent caller: it fails, the
\* server rejects the request, or it answers as asked.
ConcModes == {mode \in Modes : mode.k \in {"neterr", "rpcerr"}} \cup {OkMode}

\* Mutant: the request takes its id from the counter field when it is
\* built, not from what atomic.AddInt32 returned to this goroutine.
SentId_Shared(c, shared) == shared.id

\* callBytes: the request carries the local id, the value AddInt32 returned.
SentId(c, shared) == c.id

\* callBytes, `if api.versionInfo == nil`: an unsynchronized read.
ConcCheck(g) ==
    /\ callers[g].pc = "call"
    /\ callers' = [callers EXCEPT ![g].pc =
                      IF api.versionInfo = Nil THEN "versionAdd" ELSE "useBearer"]
    /\ UNCHANGED api

\* callBytes("APIInfo.version") under Version: id := atomic.AddInt32(&api.id, 1).
ConcVersionAdd(g) ==
    /\ callers[g].pc = "versionAdd"
    /\ api' = [api EXCEPT !.id = AddInt32(api.id, 1)]
    /\ callers' = [callers EXCEPT ![g].pc = "versionDo", ![g].id = api'.id,
                                  ![g].built = @ + 1]

\* callBytes("APIInfo.version"): the request is built and exchanged.
ConcVersionDo(g) ==
    /\ callers[g].pc = "versionDo"
    /\ IF ~api.urlOK
       THEN callers' = [callers EXCEPT ![g].pc = "done", ![g].err = NewRequestErr]
       ELSE \E mode \in ConcModes :
              callers' = [callers EXCEPT
                  ![g].pc = "versionReturn",
                  ![g].reply = ServerReply(mode, APIInfoVersion, srv),
                  ![g].wire = Append(@, WireEntry(
                      Marshal(BuildRequest(api, APIInfoVersion, Params({}, TRUE),
                                           SentId(callers[g], api), FALSE)).b,
                      AuthorizationHeader(api, APIInfoVersion, FALSE),
                      ServerReply(mode, APIInfoVersion, srv), api))]
    /\ UNCHANGED api

\* What Version makes of the body that came back to goroutine c.
ConcVersionResult(c) ==
    VersionCache(PromoteError(CallUnmarshal(
        BytesResult(Machine(api, <<>>, <<>>), c.reply,
                    IF c.reply = NoBody THEN TransportErr ELSE NoErr, NoPanic))))

\* Version returns: on success it has assigned api.versionInfo (an
\* unsynchronized write); on failure callBytes returns the error.
ConcVersionReturn(g) ==
    /\ callers[g].pc = "versionReturn"
    /\ api' = ConcVersionResult(callers[g]).m.api
    /\ callers' = [callers EXCEPT
          ![g].pc = IF ConcVersionResult(callers[g]).err = NoErr
                       /\ ConcVersionResult(callers[g]).panic = NoPanic
                    THEN "useBearer" ELSE "done",
          ![g].stored = api' # api,
          ![g].err = ConcVersionResult(callers[g]).err,
          ![g].panic = ConcVersionResult(callers[g]).panic]

\* The values a read of api.versionInfo.UseBearer can give goroutine g: the
\* flag of the descriptor, and, when another goroutine assigned the
\* descriptor without synchronization, the zero value as well.
RacyUseBearer(g) ==
    {api.versionInfo[1].UseBearer}
        \cup IF \E h \in DOMAIN callers : h # g /\ callers[h].stored
             THEN {FALSE} ELSE {}

\* callBytes: useBearer = api.versionInfo.UseBearer.
ConcUseBearer(g) ==
    /\ callers[g].pc = "useBearer"
    /\ \E ub \in RacyUseBearer(g) :
          callers' = [callers EXCEPT ![g].pc = "add", ![g].useBearer = ub]
    /\ UNCHANGED api

\* callBytes(method): id := atomic.AddInt32(&api.id, 1).
ConcAdd(g) ==
    /\ callers[g].pc = "add"
    /\ api' = [api EXCEPT !.id = AddInt32(api.id, 1)]
    /\ callers' = [callers EXCEPT ![g].pc = "do", ![g].id = api'.id,
                                  ![g].built = @ + 1]

\* callBytes(method): the request is built and exchanged, and Call returns.
ConcDo(g) ==
    /\ callers[g].pc = "do"
    /\ IF ~api.urlOK
       THEN callers' = [callers EXCEPT ![g].pc = "done", ![g].err = NewRequestErr]
       ELSE \E mode \in ConcModes :
              callers' = [callers EXCEPT
                  ![g].pc = "done",
                  ![g].err = IF mode.k = "neterr" THEN TransportErr
                             ELSE Unmarshal(ServerReply(mode, "host.get", srv)).err,
                  ![g].wire = Append(@, WireEntry(
                      Marshal(BuildRequest(api, "host.get", Params({}, TRUE),
                                           SentId(callers[g], api),
                                           callers[g].useBearer)).b,
                      AuthorizationHeader(api, "host.get", callers[g].useBearer),
                      ServerReply(mode, "host.get", srv), api))]
    /\ UNCHANGED api

\* The object the callers share: fresh, or authenticated by an earlier
\* SetAuth(Token1) that detected the server's version.
SharedObjects(server) ==
    {NewAPI(urlOK) : urlOK \in BOOLEAN}
        \cup IF Len(server) >= 2
             THEN {[Auth |-> Token1, id |-> 1, urlOK |-> TRUE,
                    versionInfo |-> Ptr(ParseVersion(FormatVersion(server)))]}
             ELSE {}

InitConc ==
    /\ srv \in ServerVersions
    /\ api \in SharedObjects(srv)
    /\ last = [NoInvocation EXCEPT !.pre = api]
    /\ convAll = {}
    /\ convSince = {}
    /\ peer = NoPeer
    /\ callers = [g \in 1..NumCallers |-> NewCaller]
    /\ sender = NewSender("zabbix", 0)
    /\ get = NewGet("agent", 0)

NextConc ==
    /\ \E g \in DOMAIN callers :
          \/ ConcCheck(g)
          \/ ConcVersionAdd(g)
          \/ ConcVersionDo(g)
          \/ ConcVersionReturn(g)
          \/ ConcUseBearer(g)
          \/ ConcAdd(g)
          \/ ConcDo(g)
    /\ UNCHANGED <<srv, last, convAll, convSince, peer, sender, get>>

SpecConc == InitConc /\ [][NextConc]_vars

\* ------------------------------------------------- the sender, the agent

\* An invocation of the sender or of the agent client: the operation, the
\* object before it, the argument, the time and the network it met, the
\* caller's slice after it, the connections, and what it returned.
IOInvocation(op, obj, arg, now, net, r) ==
    [op |-> op, obj |-> obj, arg |-> arg, now |-> now, net |-> net,
     data |-> r.data, conns |-> r.conns, response |-> r.response, v |-> r.v,
     err |-> r.err, panic |-> r.panic]

\* The timeouts a caller sets, in seconds.
Timeouts == {5, 10}

NoNet == [fail |-> "none", reply |-> <<>>]

DoSendBatch ==
    \E data \in Batches, now \in Timestamps, net \in SenderNets :
        /\ last' = IOInvocation("SendBatch", sender, data, now, net,
                                SendBatch(sender, data, now, net))
        /\ UNCHANGED <<api, srv, convAll, convSince, peer, callers, sender, get>>

\* Send takes its item by value: the caller's item is as it was.
DoSend ==
    \E item \in Items, now \in Timestamps, net \in SenderNets :
        /\ last' = [IOInvocation("Send", sender, <<item>>, now, net,
                                 Send(sender, item, now, net))
                       EXCEPT !.data = <<item>>]
        /\ UNCHANGED <<api, srv, convAll, convSince, peer, callers, sender, get>>

DoSenderSetTimeout ==
    \E timeout \in Timeouts \ {sender.Timeout} :
        /\ sender' = SenderSetTimeout(sender, timeout)
        /\ last' = [NoInvocation EXCEPT !.op = "Sender.SetTimeout"]
        /\ UNCHANGED <<api, srv, convAll, convSince, peer, callers, get>>

DoBuildPacket ==
    \E payload \in Payloads :
        /\ last' = [IOInvocation("BuildPacket", sender, payload, 0, NoNet,
                                 SendResult(payload, <<>>, Nil, NoErr, NoPanic))
                       EXCEPT !.v = BuildPacket(sender, payload)]
        /\ UNCHANGED <<api, srv, convAll, convSince, peer, callers, sender, get>>

DoGetValue ==
    \E key \in Keys, net \in GetNets :
        /\ last' = IOInvocation("GetValue", get, key, 0, net, GetValue(get, key, net))
        /\ UNCHANGED <<api, srv, convAll, convSince, peer, callers, sender, get>>

DoGetSetTimeout ==
    \E timeout \in Timeouts \ {get.Timeout} :
        /\ get' = GetSetTimeout(get, timeout)
        /\ last' = [NoInvocation EXCEPT !.op = "Get.SetTimeout"]
        /\ UNCHANGED <<api, srv, convAll, convSince, peer, callers, sender>>

\* One sender and one agent client in one process.
InitIO ==
    /\ api = NewAPI(TRUE)
    /\ last = NoInvocation
    /\ srv \in PeerVersions
    /\ convAll = {}
    /\ convSince = {}
    /\ peer = NoPeer
    /\ callers = <<>>
    /\ sender = NewSender("zabbix", 0)
    /\ get = NewGet("agent", 0)

NextIO ==
    \/ DoSendBatch
    \/ DoSend
    \/ DoSenderSetTimeout
    \/ DoGetValue

SpecIO == InitIO /\ [][NextIO]_vars

\* One RPC client, one sender and one agent client in one process, each
\* making its exchanges.
NextConn == DoCall \/ DoSend \/ DoGetValue \/ DoGetSetTimeout

SpecConn == InitIO /\ [][NextConn]_vars

\* The times a phase of an exchange with the agent may take.
Delays == {0, 3, 4, 6, 11}

DoGetValueTimed ==
    \E key \in Keys, connect \in Delays, write \in Delays, read \in Delays :
        LET d == [connect |-> connect, write |-> write, read |-> read]
            r == GetValueTimed(get, key, d)
        IN  /\ last' = [op |-> "GetValue", obj |-> get, arg |-> key, delays |-> d,
                         connected |-> r.connected, deadline |-> r.deadline,
                         elapsed |-> r.elapsed, v |-> r.v, err |-> r.err,
                         conns |-> r.conns]
            /\ UNCHANGED <<api, srv, convAll, convSince, peer, callers, sender, get>>

NextTime == DoGetValueTimed \/ DoGetSetTimeout

\* One agent client, the clock running.
SpecTime == InitIO /\ [][NextTime]_vars

\* The largest list of keys a caller asks for.
MaxKeys == 2

\* The keys of a list: the empty one and two items.
ListKeys == {EmptyString, <<"k">>, <<"j">>}

KeyLists == UNION {[1..n -> ListKeys] : n \in 0..MaxKeys}

\* What a connection of GetValues may meet: a failed dial, a failed write,
\* a value, an empty line, both sentinels, and a reply cut short.
ValuesNets ==
    {[fail |-> f, reply |-> <<>>] : f \in {"dial", "write"}}
    \cup {[fail |-> "none", reply |-> reply] :
             reply \in { <<"1", "\n">>, <<"\r", "\n">>, <<"1">>,
                         NotSupported \o <<"\n">>,
                         AgentError \o <<":", " ", "x", "\r", "\n">> }}

\* A caller about to call GetValues: its list of keys, and what each of
\* the connections GetValues makes will meet.
ValuesCallers ==
    UNION {{<<[keys |-> keys, nets |-> nets]>> : nets \in [1..Len(keys) -> ValuesNets]} :
              keys \in KeyLists}

DoGetValues ==
    /\ callers # <<>>
    /\ LET r == GetValues(get, callers[1].keys, callers[1].nets)
       IN  last' = [op |-> "GetValues", obj |-> get, arg |-> callers[1].keys,
                    nets |-> callers[1].nets, result |-> r.result,
                    calls |-> r.calls, err |-> r.err]
    /\ callers' = <<>>
    /\ UNCHANGED <<api, srv, convAll, convSince, peer, sender, get>>

\* One agent client and a caller of GetValues.
InitValues ==
    /\ api = NewAPI(TRUE)
    /\ last = NoInvocation
    /\ srv \in PeerVersions
    /\ convAll = {}
    /\ convSince = {}
    /\ peer = NoPeer
    /\ callers \in ValuesCallers
    /\ sender = NewSender("zabbix", 0)
    /\ get = NewGet("agent", 0)

NextValues == DoGetValues

SpecValues == InitValues /\ [][NextValues]_vars

\* Senders of two servers, building packets.
InitPacket ==
    /\ api = NewAPI(TRUE)
    /\ last = NoInvocation
    /\ srv \in PeerVersions
    /\ convAll = {}
    /\ convSince = {}
    /\ peer = NoPeer
    /\ callers = <<>>
    /\ sender \in {NewSender("zabbix", 0), NewSender("proxy", 10052)}
    /\ get = NewGet("agent", 0)

NextPacket == DoBuildPacket \/ DoSenderSetTimeout

SpecPacket == InitPacket /\ [][NextPacket]_vars

\* ------------------------------------------------------------ the claims

\* The requests of the last invocation.
Sent == {last.wire[i] : i \in 1..Len(last.wire)}

IsVersionQuery(e) == e.body.method = APIInfoVersion

\* The exchange brought back a version string Version accepts.
Detected(e) ==
    /\ IsVersionQuery(e)
    /\ e.reply.json = "envelope"
    /\ e.reply.error = Nil
    /\ e.reply.result.t = "string"
    /\ Len(last.srv) >= 2

\* The operations that go through callBytes with a caller-chosen method.
CallOps == {"Call", "CallWithError", "HostInterfacesGet", "HistoryGet"}

\* The auth field as a reader of the JSON body sees it: an omitted field
\* reads as the empty string.
AuthField(e) == IF e.body.auth = Nil THEN EmptyString ELSE e.body.auth[1]

\* C1 as stated: every request of a method other than APIInfo.version carries
\* the token in the Authorization header and has no auth field when the cached
\* use_bearer_header flag is true, and has auth equal to the token and no
\* Authorization header when the flag is false.
C1_AsStated ==
    \A e \in Sent :
        (~IsVersionQuery(e) /\ e.versionInfo # Nil) =>
            IF e.versionInfo[1].UseBearer
            THEN e.authorization = Ptr(Bearer \o e.Auth) /\ e.body.auth = Nil
            ELSE AuthField(e) = e.Auth /\ e.authorization = Nil

\* C1 (amended): for every request of a method other than APIInfo.version,
\* with a non-empty token: if the cached use_bearer_header flag is true the
\* request carries "Authorization: Bearer <token>" and no auth field, and if
\* the flag is false its auth field equals the token and it carries no
\* Authorization header; with an empty token it carries neither.  No request
\* carries the token in both places.
C1_TokenInOnePlace ==
    \A e \in Sent :
        (~IsVersionQuery(e) /\ e.versionInfo # Nil) =>
            /\ ~(e.authorization # Nil /\ e.body.auth # Nil)
            /\ (e.Auth # EmptyString /\ e.versionInfo[1].UseBearer) =>
                  (e.authorization = Ptr(Bearer \o e.Auth) /\ e.body.auth = Nil)
            /\ (e.Auth # EmptyString /\ ~e.versionInfo[1].UseBearer) =>
                  (e.body.auth = Ptr(e.Auth) /\ e.authorization = Nil)
            /\ (e.Auth = EmptyString) =>
                  (e.authorization = Nil /\ e.body.auth = Nil)

\* A request in bearer mode with a token, after one in body mode with a token.
C1_Witness ==
    /\ "body" \in convAll
    /\ \E e \in Sent :
          /\ ~IsVersionQuery(e)
          /\ e.versionInfo # Nil
          /\ e.versionInfo[1].UseBearer
          /\ e.Auth = Token1
          /\ e.authorization = Ptr(Bearer \o Token1)

\* C2: every APIInfo.version request has neither an auth field nor an
\* Authorization header, whatever the token and the cached descriptor, and
\* no invocation sends more than one of them: Version, SetAuth and a direct
\* Call of APIInfo.version send nothing else.
C2_VersionQueryBare ==
    /\ \A e \in Sent : IsVersionQuery(e) => (e.body.auth = Nil /\ e.authorization = Nil)
    /\ Cardinality({i \in 1..Len(last.wire) : IsVersionQuery(last.wire[i])}) <= 1
    /\ (last.op \in {"Version", "SetAuth"} \/ last.method = APIInfoVersion) =>
          (Len(last.wire) <= 1 /\ \A e \in Sent : IsVersionQuery(e))

\* A version query sent by a client that holds a token and a bearer descriptor.
C2_Witness ==
    \E e \in Sent :
        /\ IsVersionQuery(e)
        /\ e.Auth = Token1
        /\ e.versionInfo # Nil
        /\ e.versionInfo[1].UseBearer
        /\ last.op \in {"Version", "Call", "SetAuth"}

\* The error Version returns for what came back to its query.
DetectionError(e) ==
    IF e.reply.json = "none" THEN TransportErr
    ELSE IF e.reply.json = "garbage" THEN UnmarshalErr
    ELSE IF e.reply.error # Nil THEN RemoteErr(e.reply.error[1])
    ELSE IF e.reply.result.t = "string" /\ Len(last.srv) < 2 THEN FormatErr
    ELSE NoErr

\* C3: on a client whose descriptor is unset, a call of another method sends
\* the version query first and the method's request only after a successful
\* detection; when detection returns an error the call returns that error
\* and the method's request is not sent.  Every request of another method is
\* sent with a populated descriptor, Version returning nil leaves the
\* descriptor populated, and no invocation reads an unset descriptor.
C3_DetectFirst ==
    /\ (last.op \in CallOps /\ last.method # APIInfoVersion
            /\ last.pre.versionInfo = Nil /\ Len(last.wire) >= 1) =>
          /\ IsVersionQuery(last.wire[1])
          /\ Len(last.wire) = 2 =>
                (Detected(last.wire[1]) /\ last.wire[2].body.method = last.method)
          /\ ~Detected(last.wire[1]) =>
                /\ Len(last.wire) = 1
                /\ DetectionError(last.wire[1]) # NoErr =>
                      (last.err = DetectionError(last.wire[1]) /\ last.panic = NoPanic)
                /\ DetectionError(last.wire[1]) = NoErr => last.panic = TypeAssertPanic
    /\ \A e \in Sent : ~IsVersionQuery(e) => e.versionInfo # Nil
    /\ (last.op = "Version" /\ last.err = NoErr /\ last.panic = NoPanic) =>
          api.versionInfo # Nil
    /\ last.panic # NilDerefPanic

\* A call on a fresh client whose detection failed, so that nothing else was sent.
C3_WitnessDetectionFailed ==
    /\ last.op = "Call"
    /\ last.method # APIInfoVersion
    /\ last.pre.versionInfo = Nil
    /\ Len(last.wire) = 1
    /\ last.err = FormatErr

\* A call on a fresh client that detected the version and then sent its request.
C3_Witness ==
    /\ last.op = "CallWithError"
    /\ last.pre.versionInfo = Nil
    /\ Len(last.wire) = 2
    /\ last.err = NoErr

\* The server answered the version query of the last invocation in full.
VersionReported ==
    /\ last.op = "Version"
    /\ Len(last.wire) = 1
    /\ last.wire[1].reply = Envelope(Nil, StringResult(FormatVersion(last.srv)))

AtLeast(comps, major, minor) ==
    comps[1] > major \/ (comps[1] = major /\ comps[2] >= minor)

\* C4: for a version string of two or three numeric components Version
\* returns nil and caches major, minor and patch (0 when there is no third
\* component), use_bearer_header = (version >= 7.2) and use_username_field =
\* (version >= 6.4); 7.4.0 gives both flags, 6.0.5 neither, 6.4 patch 0.
C4_ParsedDescriptor ==
    (VersionReported /\ Len(last.srv) >= 2) =>
        /\ last.err = NoErr
        /\ last.panic = NoPanic
        /\ last.v = FormatVersion(last.srv)
        /\ api.versionInfo =
              Ptr([Version |-> FormatVersion(last.srv),
                   Major |-> last.srv[1],
                   Minor |-> last.srv[2],
                   Patch |-> IF Len(last.srv) >= 3 THEN last.srv[3] ELSE 0,
                   UseBearer |-> AtLeast(last.srv, 7, 2),
                   UseUsername |-> AtLeast(last.srv, 6, 4)])
        /\ last.srv = <<7, 4, 0>> =>
              (api.versionInfo[1].UseBearer /\ api.versionInfo[1].UseUsername)
        /\ last.srv = <<6, 0, 5>> =>
              (~api.versionInfo[1].UseBearer /\ ~api.versionInfo[1].UseUsername)
        /\ last.srv = <<6, 4>> => api.versionInfo[1].Patch = 0

\* Version has parsed "7.2.10": bearer mode at the threshold, two-digit patch.
C4_Witness ==
    /\ VersionReported
    /\ last.srv = <<7, 2, 10>>
    /\ api.versionInfo # Nil
    /\ api.versionInfo[1].UseBearer
    /\ api.versionInfo[1].Patch = 10

\* Marshaling, every HTTP exchange and every unmarshaling of the last
\* invocation succeeded.
ExchangesSucceeded ==
    /\ Len(last.wire) >= 1
    /\ last.wire[Len(last.wire)].body.method = last.method
    /\ \A e \in Sent : e.reply.json = "envelope"

\* C5 as stated: Call returns a nil error whenever marshaling, the HTTP
\* exchange and unmarshaling succeed; CallWithError returns a non-nil error
\* exactly when an exchange failed or the response's error field is set, and
\* in the second case the error is that remote error.
C5_AsStated ==
    /\ (last.op = "Call" /\ ExchangesSucceeded) =>
          (last.err = NoErr /\ last.panic = NoPanic)
    /\ (last.op = "CallWithError" /\ ExchangesSucceeded) =>
          /\ last.panic = NoPanic
          /\ last.err # NoErr <=> last.response.Error # Nil
          /\ last.response.Error # Nil =>
                last.err = RemoteErr(last.response.Error[1])
    /\ (last.op \in {"Call", "CallWithError"} /\ ~ExchangesSucceeded) =>
          (last.err.kind \notin {"nil", "remote"} /\ last.panic = NoPanic)

\* The user.login requests of the last invocation.
LoginRequests == {i \in 1..Len(last.wire) : last.wire[i].body.method = UserLogin}

\* C6: Login sends a version query first if and only if the descriptor is
\* unset, and no user.login request when that detection fails; otherwise it
\* sends exactly one user.login request, whose credential field is
\* "username" when use_username_field is true and "user" otherwise.
C6_LoginRequests ==
    last.op = "Login" =>
        /\ \A i \in 1..Len(last.wire) :
              IsVersionQuery(last.wire[i]) <=> (i = 1 /\ last.pre.versionInfo = Nil)
        /\ \A i \in 1..Len(last.wire) :
              ~IsVersionQuery(last.wire[i]) => i \in LoginRequests
        /\ (last.pre.versionInfo = Nil /\ last.pre.urlOK) => Len(last.wire) >= 1
        /\ IF last.pre.versionInfo # Nil
              \/ (Len(last.wire) >= 1 /\ Detected(last.wire[1]))
           THEN Cardinality(LoginRequests) = 1
           ELSE LoginRequests = {}
        /\ \A i \in LoginRequests :
              /\ i = Len(last.wire)
              /\ last.wire[i].versionInfo # Nil
              /\ ParamKeys(last.wire[i].body.params) =
                    IF last.wire[i].versionInfo[1].UseUsername
                    THEN {"username", "password"} ELSE {"user", "password"}

\* Login on a fresh client against a 6.0 server: a version query, then one
\* user.login request with the "user" field.
C6_Witness ==
    /\ last.op = "Login"
    /\ last.pre.versionInfo = Nil
    /\ Len(last.wire) = 2
    /\ ParamKeys(last.wire[2].body.params) = {"user", "password"}

\* Login on a client with a cached 6.4+ descriptor: one request, "username".
C6_WitnessCached ==
    /\ last.op = "Login"
    /\ last.pre.versionInfo # Nil
    /\ Len(last.wire) = 1
    /\ ParamKeys(last.wire[1].body.params) = {"username", "password"}

\* C7: when Login succeeds the active token is the token the server returned
\* and Login returns it; when Login fails the active token is what it was
\* before the call.
C7_LoginToken ==
    last.op = "Login" =>
        /\ (last.err = NoErr /\ last.panic = NoPanic) =>
              /\ LoginRequests # {}
              /\ \A i \in LoginRequests :
                    /\ last.wire[i].reply.result.t = "string"
                    /\ api.Auth = last.wire[i].reply.result.s
                    /\ last.v = last.wire[i].reply.result.s
        /\ (last.err # NoErr \/ last.panic # NoPanic) => api.Auth = last.pre.Auth

\* A successful Login that replaced one token by another.
C7_Witness ==
    /\ last.op = "Login"
    /\ last.err = NoErr
    /\ last.panic = NoPanic
    /\ last.pre.Auth = Token1
    /\ api.Auth = Token2

\* A Login that failed with a remote error on a client that held a token.
C7_WitnessFailed ==
    /\ last.op = "Login"
    /\ last.err.kind = "remote"
    /\ LoginRequests # {}
    /\ api.Auth = Token1

\* C8: SetAuth(token) installs the token and always runs the version query,
\* also when a descriptor is cached; when it returns nil the cached
\* descriptor is the one of the version the server reported in that query.
C8_SetAuthDetects ==
    last.op = "SetAuth" =>
        /\ api.Auth = last.arg
        /\ api.id = AddInt32(last.pre.id, 1)
        /\ last.pre.urlOK => (Len(last.wire) = 1 /\ IsVersionQuery(last.wire[1]))
        /\ (last.err = NoErr /\ last.panic = NoPanic) =>
              /\ Len(last.wire) = 1
              /\ last.wire[1].reply.result = StringResult(FormatVersion(last.srv))
              /\ Len(last.srv) >= 2
              /\ api.versionInfo # Nil
              /\ api.versionInfo[1].Version = FormatVersion(last.srv)
              /\ api.versionInfo[1].Major = last.srv[1]
              /\ api.versionInfo[1].Minor = last.srv[2]
              /\ api.versionInfo[1].UseBearer = AtLeast(last.srv, 7, 2)
              /\ api.versionInfo[1].UseUsername = AtLeast(last.srv, 6, 4)

\* SetAuth on a client with a cached body-mode descriptor, after the server
\* went to 7.4: the descriptor now says bearer.
C8_Witness ==
    /\ last.op = "SetAuth"
    /\ last.arg = Token1
    /\ last.err = NoErr
    /\ last.pre.versionInfo # Nil
    /\ ~last.pre.versionInfo[1].UseBearer
    /\ api.versionInfo[1].UseBearer

\* The operations other than the explicit detections Version and SetAuth.
OrdinaryOps == {"Call", "CallWithError", "Login", "HostInterfacesGet", "HistoryGet"}

\* C9: once the descriptor is set, no Call, CallWithError, Login or typed
\* accessor changes or clears it, also when the server reports another
\* version by then.
C9_DescriptorKept ==
    (last.op \in OrdinaryOps /\ last.pre.versionInfo # Nil) =>
        api.versionInfo = last.pre.versionInfo

\* A call that went through against a server whose version is no longer the
\* cached one.
C9_Witness ==
    /\ last.op \in {"Call", "Login"}
    /\ last.method # APIInfoVersion
    /\ last.pre.versionInfo # Nil
    /\ last.pre.versionInfo[1].Version # FormatVersion(last.srv)
    /\ Len(last.srv) >= 2
    /\ Len(last.wire) = 1
    /\ last.err = NoErr

\* C10 as stated: after the first successful detection all requests of other
\* methods use one convention, over any sequence of Call, Login, SetAuth and
\* Version.
C10_AsStated == Cardinality(convAll) <= 1

\* C10 (amended): between two successful explicit detections (Version or
\* SetAuth) all token-carrying requests of other methods use one convention;
\* the convention changes only at a Version or SetAuth that finds a server
\* on the other side of 7.2.
C10_OneConventionPerDetection == Cardinality(convSince) <= 1

\* Both conventions were used over the client's life, the later one only
\* after an explicit detection.
C10_Witness ==
    /\ convAll = {"bearer", "body"}
    /\ Cardinality(convSince) = 1
    /\ last.op \in OrdinaryOps

\* The requests the last invocation built without handing them to client.Do:
\* one when json.Marshal or http.NewRequest failed, after the id was taken.
BuiltNotSent == IF last.err.kind \in {"marshal", "newrequest"} THEN 1 ELSE 0

\* The invocations of the client's operations.
Invoked == last.op \notin {"NewAPI", "ServerUpgrade"}

\* C11: the request ids of one client instance start at 1 and are strictly
\* increasing and pairwise distinct over sequential calls, the automatic
\* version queries included: the requests of an invocation carry the ids
\* that follow the counter it started from, one after the other, every id
\* sent is at most the counter, and the counter moves forward by one for
\* every request built, sent or not, so that no id is taken again after a
\* failed call.
C11_IdsIncrease ==
    /\ api.id >= last.pre.id
    /\ \A e \in Sent : e.body.id >= 1 /\ e.body.id <= api.id
    /\ Invoked =>
          /\ \A i \in 1..Len(last.wire) : last.wire[i].body.id = last.pre.id + i
          /\ \A i, j \in 1..Len(last.wire) :
                i < j => last.wire[i].body.id < last.wire[j].body.id
          /\ api.id = last.pre.id + Len(last.wire) + BuiltNotSent

\* A call that sent the automatic version query and its own request with
\* the ids 2 and 3, on a client whose first request had failed.
C11_Witness ==
    /\ last.op = "Call"
    /\ last.pre.id = 1
    /\ last.pre.versionInfo = Nil
    /\ Len(last.wire) = 2
    /\ IsVersionQuery(last.wire[1])
    /\ last.wire[1].body.id = 2
    /\ last.wire[2].body.id = 3

\* A call whose request could not be marshalled: the id is used up.
C11_WitnessFailed ==
    /\ last.op = "Call"
    /\ last.err = MarshalErr
    /\ last.wire = <<>>
    /\ api.id = last.pre.id + 1

\* The server answered the version query of the last Version call with a
\* string of fewer than two dotted components.
ShortVersionReported ==
    /\ last.op = "Version"
    /\ Len(last.wire) = 1
    /\ last.wire[1].reply = Envelope(Nil, StringResult(FormatVersion(last.srv)))
    /\ Len(last.srv) < 2

\* C13: when the server reports a version string with fewer than two dotted
\* components, Version returns the format error, does not abort, and leaves
\* the cached descriptor (set or unset) and the token as they were.
C13_FormatError ==
    ShortVersionReported =>
        /\ last.err = FormatErr
        /\ last.panic = NoPanic
        /\ api.versionInfo = last.pre.versionInfo
        /\ api.Auth = last.pre.Auth

\* Version got "7" on a fresh client: format error, descriptor still unset.
C13_Witness ==
    /\ ShortVersionReported
    /\ last.srv = <<7>>
    /\ last.pre.versionInfo = Nil
    /\ api.versionInfo = Nil
    /\ last.err = FormatErr

\* Version got "7" on a client with a cached descriptor, which it kept.
C13_WitnessCached ==
    /\ ShortVersionReported
    /\ last.pre.versionInfo # Nil
    /\ api.versionInfo = last.pre.versionInfo

\* The requests of the last invocation that have a token to carry.
TokenRequests == {e \in Sent : ~IsVersionQuery(e) /\ e.Auth # EmptyString}

InHeader(e) == e.authorization = Ptr(Bearer \o e.Auth) /\ e.body.auth = Nil

InBody(e) == e.body.auth = Ptr(e.Auth) /\ e.authorization = Nil

C14_WitnessBody ==
    /\ last.op \in {"Call", "CallWithError"}
    /\ last.srv[1] = 7
    /\ last.srv[2] = 0
    /\ \E e \in TokenRequests : InBody(e)

\* The descriptor an instance caches is the parse of what its own server
\* reports.
OwnDescriptor(a, server) ==
    a.versionInfo # Nil =>
        /\ Len(server) >= 2
        /\ a.versionInfo[1].Version = FormatVersion(server)
        /\ a.versionInfo[1].UseBearer = AtLeast(server, 7, 2)
        /\ a.versionInfo[1].UseUsername = AtLeast(server, 6, 4)

\* C15: the descriptor, the token and the id counter are scoped to one
\* instance: an operation on one API instance leaves the descriptor, the
\* token and the id counter of the other instance as they were, each
\* instance's descriptor is the one of its own server, and each request
\* follows the convention of the server of the instance that sent it, also
\* when the two servers differ and the calls interleave.
C15_InstanceScoped ==
    /\ Objects[IF last.who = "api" THEN "peer" ELSE "api"] = last.other
    /\ OwnDescriptor(api, srv)
    /\ OwnDescriptor(peer.api, peer.srv)
    /\ \A e \in TokenRequests :
          IF AtLeast(last.srv, 7, 2) THEN InHeader(e) ELSE InBody(e)

\* The second instance sent its token in the body to its 6.x server while
\* the first holds a token and the bearer descriptor of its 7.4 server.
C15_Witness ==
    /\ last.who = "peer"
    /\ last.op = "CallWithError"
    /\ api.versionInfo # Nil
    /\ api.versionInfo[1].UseBearer
    /\ api.Auth # EmptyString
    /\ api.id >= 2
    /\ peer.api.versionInfo # Nil
    /\ ~peer.api.versionInfo[1].UseBearer
    /\ \E e \in TokenRequests : InBody(e)

\* The requests sent by the concurrent callers, each with its sender and
\* its position among the sender's requests.
ConcSent ==
    UNION {{<<g, i>> : i \in 1..Len(callers[g].wire)} : g \in DOMAIN callers}

RECURSIVE SumBuilt(_)
SumBuilt(g) == IF g = 0 THEN 0 ELSE callers[g].built + SumBuilt(g - 1)

\* C12: when several callers invoke Call at the same time on one shared
\* client instance, under every interleaving no two requests are sent with
\* the same id, and the counter equals the number of requests built (at
\* the end as at every moment before): no increment is lost.
C12_ConcurrentIds ==
    /\ \A p, q \in ConcSent :
          p # q => callers[p[1]].wire[p[2]].body.id # callers[q[1]].wire[q[2]].body.id
    /\ api.id = last.pre.id + SumBuilt(Len(callers))

\* Two callers on a fresh client have both finished, each after its own
\* version query and its own request: four requests, the counter at 4.
C12_Witness ==
    /\ Len(callers) >= 2
    /\ \A g \in DOMAIN callers : callers[g].pc = "done"
    /\ Len(callers[1].wire) = 2
    /\ Len(callers[2].wire) = 2
    /\ callers[1].wire[1].body.id < callers[2].wire[1].body.id
    /\ callers[2].wire[2].body.id < callers[1].wire[2].body.id
    /\ api.id = 4

\* C18: for every payload, the empty one included, BuildPacket(payload) has
\* length 5 + 8 + len(payload); its first 5 bytes are ZBXD and 0x01; its
\* next 8 bytes are len(payload) as an unsigned little-endian integer; the
\* remaining bytes are the payload unchanged; the result is the same for
\* every sender, and the input is not modified.
C18_PacketLayout ==
    last.op = "BuildPacket" =>
        /\ Len(last.v) = 5 + 8 + Len(last.arg)
        /\ SubSeq(last.v, 1, 5) = <<90, 66, 88, 68, 1>>
        /\ last.v[6] + 256 * last.v[7] + 65536 * last.v[8] = Len(last.arg)
        /\ \A i \in 9..13 : last.v[i] = 0
        /\ \A i \in 6..13 : last.v[i] \in 0..255
        /\ SubSeq(last.v, 14, Len(last.v)) = last.arg
        /\ last.data = last.arg
        /\ \A timeout \in Timeouts :
              BuildPacket(SenderSetTimeout(NewSender("other", 1), timeout), last.arg)
                  = last.v

\* The packet of a payload of 513 bytes: the length bytes are 1 and 2.
C18_Witness ==
    /\ last.op = "BuildPacket"
    /\ Len(last.arg) = 513
    /\ last.v[6] = 1
    /\ last.v[7] = 2
    /\ Len(last.v) = 526

\* The packet of the empty payload: the 13 bytes of the header.
C18_WitnessEmpty ==
    /\ last.op = "BuildPacket"
    /\ last.arg = <<>>
    /\ last.v = <<90, 66, 88, 68, 1, 0, 0, 0, 0, 0, 0, 0, 0>>

\* C19: SendBatch with an empty batch and GetValue with an empty key each
\* return an error without attempting any connection and without changing
\* any state: the sender, the agent client and the caller's slice are as
\* they were.
C19_RejectedBeforeConnect ==
    /\ (last.op = "SendBatch" /\ last.arg = <<>>) =>
          /\ last.err = LocalErr("nodata")
          /\ last.panic = NoPanic
          /\ last.response = Nil
          /\ last.conns = <<>>
          /\ last.data = last.arg
          /\ sender = last.obj
    /\ (last.op = "GetValue" /\ last.arg = EmptyString) =>
          /\ last.err = LocalErr("emptykey")
          /\ last.v = EmptyString
          /\ last.conns = <<>>
          /\ get = last.obj

\* SendBatch got the empty batch while the server was there to answer.
C19_Witness ==
    /\ last.op = "SendBatch"
    /\ last.arg = <<>>
    /\ last.net.fail = "none"
    /\ last.net.reply = ServerFrame(PutUint64(Len(AckSuccess)), Bytes(AckSuccess))
    /\ last.err # NoErr

\* GetValue got the empty key while the agent was there to answer.
C19_WitnessGet ==
    /\ last.op = "GetValue"
    /\ last.arg = EmptyString
    /\ last.net.fail = "none"
    /\ last.net.reply = <<"1", "\n">>
    /\ last.err # NoErr

\* The packets the last invocation wrote.
Written == UNION {{c.written[i] : i \in 1..Len(c.written)} :
                     c \in {last.conns[j] : j \in 1..Len(last.conns)}}

\* The batch SendBatch is to serialize: the input, each zero clock replaced
\* by t.
Clocked(data, t) ==
    [i \in 1..Len(data) |->
        SenderData(data[i].Host, data[i].Key, data[i].Value,
                   IF data[i].Clock = 0 THEN t ELSE data[i].Clock)]

\* C20: the batch that SendBatch serializes has the same items in the same
\* order as the input, with host, key, value and every non-zero clock
\* unchanged, and with every zero clock replaced by the one timestamp
\* sampled for that call; that batch is what the packet carries.
C20_BatchSerialized ==
    (last.op = "SendBatch" /\ last.arg # <<>>) =>
        /\ Len(last.data) = Len(last.arg)
        /\ last.data = Clocked(last.arg, last.now)
        /\ \A i, j \in 1..Len(last.arg) :
              (last.arg[i].Clock = 0 /\ last.arg[j].Clock = 0) =>
                  last.data[i].Clock = last.data[j].Clock
        /\ \A packet \in Written :
              /\ SubSeq(packet, 14, Len(packet))
                    = Bytes(MarshalBatch(Clocked(last.arg, last.now)))
              /\ SubSeq(packet, 14, 15) = Bytes(<<"[", "{">>)
              /\ packet[Len(packet)] = Code("]")

\* A batch of an item without clock and an item with clock 50, sent at time
\* 101: the packet carries both in that order, the first with clock 101, the
\* second with its value escaped as json.Marshal escapes it.
C20_Witness ==
    /\ last.op = "SendBatch"
    /\ last.now = 101
    /\ Len(last.arg) = 2
    /\ last.arg[1] = SenderData(<<"h">>, <<"k">>, <<"1">>, 0)
    /\ last.arg[2] = SenderData(<<"h">>, <<"k">>, <<"<", "\"">>, 50)
    /\ \E packet \in Written :
          SubSeq(packet, 14, Len(packet)) = Bytes(
              <<"[", "{", "\"", "h", "o", "s", "t", "\"", ":", "\"", "h", "\"", ",", "\"", "k", "e", "y", "\"", ":", "\"", "k", "\"", ",", "\"", "v", "a", "l", "u", "e", "\"", ":", "\"", "1", "\"", ",", "\"", "c", "l", "o", "c", "k", "\"", ":", "1", "0", "1", "}", ",">>
              \o <<"{", "\"", "h", "o", "s", "t", "\"", ":", "\"", "h", "\"", ",", "\"", "k", "e", "y", "\"", ":", "\"", "k", "\"", ",", "\"", "v", "a", "l", "u", "e", "\"", ":", "\"", "\\", "u", "0", "0", "3", "c", "\\", "\"", "\"", ",", "\"", "c", "l", "o", "c", "k", "\"", ":", "5", "0", "}", "]">>)

\* Two items without clock, sent in one call: both carry the same clock.
C20_WitnessShared ==
    /\ last.op = "SendBatch"
    /\ Len(last.arg) = 2
    /\ last.arg[1].Clock = 0
    /\ last.arg[2].Clock = 0
    /\ last.data[1].Clock = last.data[2].Clock
    /\ last.data[1].Clock = last.now
    /\ Written # {}

\* The connections of the last invocation of the sender or the agent client.
Conns == {last.conns[i] : i \in 1..Len(last.conns)}

\* The last invocation was one of the sender or of the agent client that
\* went to the network.
ReachedNetwork == last.op \in {"SendBatch", "Send", "GetValue"} /\ last.conns # <<>>

\* C16 as stated: every invocation of Call, SendBatch and GetValue that
\* reaches the network opens exactly one connection and performs exactly
\* one request/response exchange, and a failed connect, write or read ends
\* the invocation with an error.
C16_AsStated ==
    /\ (last.op = "Call" /\ last.wire # <<>>) =>
          /\ Len(last.wire) = 1
          /\ last.wire[1].reply = NoBody => last.err # NoErr
    /\ ReachedNetwork =>
          /\ Len(last.conns) = 1
          /\ \A c \in Conns : Len(c.written) <= 1
          /\ last.net.fail # "none" => last.err # NoErr

\* C16, amended: every request is one connection and one exchange, and none
\* is retried.  SendBatch and GetValue make one connection and write one
\* request on it; Call sends one request, or two when the version
\* descriptor is unset and the method is not the version query: the version
\* query first, then its own request, and its own request only if the
\* version query succeeded.  A failed connect, write or read is the last
\* thing the invocation does on the network and the invocation returns an
\* error.
C16_OneExchangePerRequest ==
    /\ last.op = "Call" =>
          /\ Len(last.wire) <= 2
          /\ Len(last.wire) = 2 =>
                /\ last.pre.versionInfo = Nil
                /\ last.method # APIInfoVersion
                /\ IsVersionQuery(last.wire[1])
                /\ last.wire[1].reply # NoBody
                /\ last.wire[2].body.method = last.method
          /\ (last.pre.versionInfo # Nil /\ last.wire # <<>>) =>
                /\ Len(last.wire) = 1
                /\ last.wire[1].body.method = last.method
          /\ \A i \in 1..Len(last.wire) :
                last.wire[i].reply = NoBody =>
                    /\ i = Len(last.wire)
                    /\ last.err # NoErr
    /\ ReachedNetwork =>
          /\ Len(last.conns) = 1
          /\ \A c \in Conns :
                /\ Len(c.written) <= 1
                /\ ~c.opened => c.written = <<>> /\ c.reads = 0
          /\ last.net.fail # "none" =>
                /\ last.err # NoErr
                /\ \A c \in Conns : c.reads = 0
          /\ (last.err = NoErr /\ last.panic = NoPanic) =>
                \A c \in Conns : c.opened /\ Len(c.written) = 1 /\ c.reads >= 1

\* A call on a fresh client: the version query and the request, two
\* exchanges, and no error.
C16_Witness ==
    /\ last.op = "Call"
    /\ last.method = "host.get"
    /\ last.pre.versionInfo = Nil
    /\ Len(last.wire) = 2
    /\ last.wire[2].reply # NoBody
    /\ last.err = NoErr

\* A call whose version query failed on the network: one exchange, an error.
C16_WitnessFailedQuery ==
    /\ last.op = "Call"
    /\ last.method = "host.get"
    /\ Len(last.wire) = 1
    /\ IsVersionQuery(last.wire[1])
    /\ last.wire[1].reply = NoBody
    /\ last.err # NoErr

\* GetValue whose write failed: one connection, one write, an error.
C16_WitnessFailedWrite ==
    /\ last.op = "GetValue"
    /\ last.net.fail = "write"
    /\ Len(last.conns) = 1
    /\ last.err = LocalErr("send")

\* Send whose server answered: one connection, one packet, two reads.
C16_WitnessSent ==
    /\ last.op = "Send"
    /\ last.err = NoErr
    /\ last.response # Nil
    /\ Len(last.conns) = 1
    /\ \A c \in Conns : Len(c.written) = 1 /\ c.reads = 2

\* C17 as stated: whenever Call, SendBatch or GetValue returns, on the
\* success path and on every error path, every connection the invocation
\* opened has been closed.
C17_AsStated ==
    /\ last.op = "Call" => \A e \in Sent : e.conn = "closed"
    /\ last.op \in {"SendBatch", "Send", "GetValue"} =>
          \A c \in Conns : c.opened => c.closed

\* The length a reply declares, by the weights of its three low length
\* bytes, and whether its five high length bytes are zero.
Declared == last.net.reply[6] + 256 * last.net.reply[7] + 65536 * last.net.reply[8]

HighZero == \A i \in 9..13 : last.net.reply[i] = 0

\* The reply of the last exchange is well framed: 13 header bytes on the
\* wire, the magic, a non-zero length L, L further bytes, and these parse
\* as an acknowledgement.
WellFramed ==
    /\ last.net.fail = "none"
    /\ Len(last.net.reply) >= 13
    /\ SubSeq(last.net.reply, 1, 5) = <<90, 66, 88, 68, 1>>
    /\ HighZero
    /\ Declared # 0
    /\ Len(last.net.reply) >= 13 + Declared
    /\ SubSeq(last.net.reply, 14, 13 + Declared)
           \in {Bytes(AckSuccess), Bytes(AckFailed), Bytes(<<"{", "}">>)}

\* C21 as stated: SendBatch returns an acknowledgement only if the reply is
\* well framed; in every other case it returns an error with a nil
\* acknowledgement and makes no second attempt.
C21_AsStated ==
    (last.op \in {"SendBatch", "Send"} /\ last.arg # <<>>) =>
        /\ last.response # Nil => WellFramed /\ last.err = NoErr
        /\ ~WellFramed =>
              /\ last.err # NoErr
              /\ last.panic = NoPanic
              /\ last.response = Nil
              /\ Len(last.conns) = 1
              /\ \A c \in Conns : Len(c.written) <= 1

\* The agent's reply of the last GetValue up to its first line feed, the
\* line feed and the carriage returns before it taken off, for the replies
\* of this model.
Stripped ==
    CASE last.net.reply = <<"1", "\n">> -> <<"1">>
      [] last.net.reply = <<"\n">> -> EmptyString
      [] last.net.reply = <<"\r", "\n">> -> EmptyString
      [] last.net.reply = <<"1", "\n", "2", "\n">> -> <<"1">>
      [] last.net.reply = NotSupported \o <<"\n">> -> NotSupported
      [] last.net.reply = AgentError \o <<":", " ", "x", "\r", "\n">> ->
            AgentError \o <<":", " ", "x">>

\* s begins with p, character by character.
BeginsWith(s, p) == Len(s) >= Len(p) /\ \A i \in 1..Len(p) : s[i] = p[i]

\* The last invocation was a GetValue that read a line.
LineRead ==
    /\ last.op = "GetValue"
    /\ last.arg # EmptyString
    /\ last.net.fail = "none"
    /\ "\n" \in {last.net.reply[i] : i \in 1..Len(last.net.reply)}

\* C22: GetValue classifies the response line, after stripping trailing
\* CR/LF: a line starting with ZBX_NOTSUPPORTED yields an error whose text
\* includes the requested key; a line starting with ZBX_ERROR yields an
\* error whose text includes the raw response; every other line, the empty
\* one included, is returned as the value with a nil error.
C22_Classified ==
    LineRead =>
        IF BeginsWith(Stripped, NotSupported)
        THEN /\ last.err.kind = "notsupported"
             /\ last.err.text = last.arg
             /\ last.v = EmptyString
        ELSE IF BeginsWith(Stripped, AgentError)
        THEN /\ last.err.kind = "agent"
             /\ last.err.text = Stripped
             /\ last.v = EmptyString
        ELSE /\ last.err = NoErr
             /\ last.v = Stripped

\* The agent answered ZBX_ERROR: x and GetValue returned an error with that
\* text.
C22_Witness ==
    /\ LineRead
    /\ last.net.reply = AgentError \o <<":", " ", "x", "\r", "\n">>
    /\ last.err.kind = "agent"
    /\ last.err.text = AgentError \o <<":", " ", "x">>

\* The agent answered ZBX_NOTSUPPORTED and the error names the key.
C22_WitnessNotSupported ==
    /\ LineRead
    /\ last.net.reply = NotSupported \o <<"\n">>
    /\ last.err.kind = "notsupported"
    /\ last.err.text = <<"k">>

\* The agent answered an empty line and GetValue returned the empty value.
C22_WitnessEmpty ==
    /\ LineRead
    /\ last.net.reply = <<"\r", "\n">>
    /\ last.err = NoErr
    /\ last.v = EmptyString

\* The calls of GetValue the last GetValues made that succeeded, failed.
Succeeded == {i \in 1..Len(last.calls) : last.calls[i].err = NoErr}

Failed == {i \in 1..Len(last.calls) : last.calls[i].err # NoErr}

\* text contains part.
Contains(text, part) ==
    \E i \in 0..(Len(text) - Len(part)) :
        \A j \in 1..Len(part) : text[i + j] = part[j]

\* C23: for every list of keys, GetValues returns a mapping whose keys are
\* exactly the keys for which GetValue succeeded, each with the value
\* GetValue returned (the last one, when a key is listed twice); its error
\* is nil if and only if every key succeeded; when some key failed it still
\* returns the partial mapping, with a non-nil error that mentions each
\* failed key.
C23_PartialMapping ==
    last.op = "GetValues" =>
        /\ DOMAIN last.result = {last.calls[i].key : i \in Succeeded}
        /\ \A i \in Succeeded :
              (\A j \in Succeeded : j > i => last.calls[j].key # last.calls[i].key)
                  => last.result[last.calls[i].key] = last.calls[i].v
        /\ last.err = NoErr <=> Failed = {}
        /\ \A i \in Failed :
              Contains(last.err.text, last.calls[i].key \o <<":", " ">>)

\* GetValues of k and j, k answered with 1 and j not supported: the mapping
\* holds k only and the error names j.
C23_Witness ==
    /\ last.op = "GetValues"
    /\ last.arg = << <<"k">>, <<"j">> >>
    /\ last.nets[1].reply = <<"1", "\n">>
    /\ last.nets[2].reply = NotSupported \o <<"\n">>
    /\ last.result = (<<"k">> :> <<"1">>)
    /\ last.err.text = <<"s", "o", "m", "e", " ", "k", "e", "y", "s", " ", "f", "a", "i", "l", "e", "d", ":", " ", "j", ":", " ", "k", "e", "y", " ", "n", "o", "t", " ", "s", "u", "p", "p", "o", "r", "t", "e", "d", ":", " ", "j">>

\* GetValues of k and j, both answered: the mapping holds both, no error.
C23_WitnessAll ==
    /\ last.op = "GetValues"
    /\ last.arg = << <<"k">>, <<"j">> >>
    /\ DOMAIN last.result = {<<"k">>, <<"j">>}
    /\ last.err = NoErr

\* The failure descriptions of the calls from the i-th on, in the order of
\* the calls, "; " between one and the next.
RECURSIVE Described(_)
Described(i) ==
    IF i > Len(last.calls) THEN <<>>
    ELSE IF i \notin Failed THEN Described(i + 1)
    ELSE last.calls[i].key \o <<":", " ">> \o ErrorText(last.obj, last.calls[i].err)
            \o (IF \E j \in Failed : j > i THEN <<";", " ">> ELSE <<>>)
            \o Described(i + 1)

\* C25: GetValues attempts every key of its input exactly once, in input
\* order and one after another: the i-th call of GetValue is for the i-th
\* key, it makes at most one connection, and that connection is closed
\* when the call returns, before the next call starts, so that at most one
\* agent connection is open at any time; a failed key does not end the
\* loop; the failure descriptions in the combined error are in input order
\* and joined by "; ".
C25_EveryKeyInOrder ==
    last.op = "GetValues" =>
        /\ Len(last.calls) = Len(last.arg)
        /\ \A i \in 1..Len(last.arg) :
              /\ last.calls[i].key = last.arg[i]
              /\ Len(last.calls[i].conns) <= 1
              /\ last.arg[i] # EmptyString => Len(last.calls[i].conns) = 1
              /\ \A n \in 1..Len(last.calls[i].conns) :
                    LET c == last.calls[i].conns[n]
                    IN  /\ c.opened => c.closed
                        /\ c.written # <<>> =>
                              c.written = <<Bytes(last.arg[i] \o <<"\n">>)>>
        /\ Failed # {} =>
              last.err.text = <<"s", "o", "m", "e", " ", "k", "e", "y", "s", " ", "f", "a", "i", "l", "e", "d", ":", " ">>
                                  \o Described(1)

\* GetValues of k and j, k not supported and j an agent error: both were
\* asked for and the error describes k, then j.
C25_Witness ==
    /\ last.op = "GetValues"
    /\ last.arg = << <<"k">>, <<"j">> >>
    /\ last.calls[1].err.kind = "notsupported"
    /\ last.calls[2].err.kind = "agent"
    /\ last.calls[2].conns[1].written = <<Bytes(<<"j", "\n">>)>>
    /\ last.err.text =
          <<"s", "o", "m", "e", " ", "k", "e", "y", "s", " ", "f", "a", "i", "l", "e", "d", ":", " ", "k", ":", " ", "k", "e", "y", " ", "n", "o", "t", " ", "s", "u", "p", "p", "o", "r", "t", "e", "d", ":", " ", "k", ";", " ">>
          \o <<"j", ":", " ", "a", "g", "e", "n", "t", " ", "e", "r", "r", "o", "r", ":", " ", "Z", "B", "X", "_", "E", "R", "R", "O", "R", ":", " ", "x">>

\* GetValues of the empty key and k: the first fails, the second is asked
\* for all the same and answered.
C25_WitnessContinued ==
    /\ last.op = "GetValues"
    /\ last.arg = << EmptyString, <<"k">> >>
    /\ last.calls[1].conns = <<>>
    /\ last.calls[2].err = NoErr
    /\ last.result = (<<"k">> :> <<"1">>)
    /\ last.err.text = <<"s", "o", "m", "e", " ", "k", "e", "y", "s", " ", "f", "a", "i", "l", "e", "d", ":", " ", ":", " ", "k", "e", "y", " ", "c", "a", "n", "n", "o", "t", " ", "b", "e", " ", "e", "m", "p", "t", "y">>

\* C24 as stated: in GetValue the connect, write and read phases share one
\* timeout budget: a single deadline set at the start covers the whole
\* exchange, so GetValue returns a value or a transport error no later than
\* one Timeout after it started.
C24_AsStated ==
    (last.op = "GetValue" /\ last.arg # EmptyString) =>
        /\ last.deadline = last.obj.Timeout
        /\ last.elapsed <= last.obj.Timeout

\* C26 as stated: for every payload p, feeding BuildPacket(p) to the
\* response-decoding steps of SendBatch recovers exactly p.
C26_AsStated ==
    last.op = "BuildPacket" =>
        /\ ReadResponse(last.v).kind = "ok"
        /\ ReadResponse(last.v).data = last.arg

\* C26, amended: for every non-empty payload p, the response-decoding
\* steps of SendBatch (13-byte header, magic check, little-endian length,
\* body read) applied to BuildPacket(p) recover exactly p, in two reads and
\* also when more bytes follow the packet; BuildPacket of the empty payload
\* is refused as an empty response.
C26_SameFraming ==
    last.op = "BuildPacket" =>
        /\ last.arg # <<>> =>
              /\ ReadResponse(last.v) = Decoded("ok", last.arg, 2, NoPanic)
              /\ ReadResponse(last.v \o <<0, 1>>).data = last.arg
        /\ last.arg = <<>> =>
              ReadResponse(last.v) = Decoded("emptyresponse", <<>>, 1, NoPanic)

\* A payload of 256 bytes, built and decoded.
C26_Witness ==
    /\ last.op = "BuildPacket"
    /\ Len(last.arg) = 256
    /\ ReadResponse(last.v).kind = "ok"
    /\ Len(ReadResponse(last.v).data) = 256

\* The empty payload, built and refused.
C26_WitnessEmpty ==
    /\ last.op = "BuildPacket"
    /\ last.arg = <<>>
    /\ Len(last.v) = 13
    /\ ReadResponse(last.v).kind = "emptyresponse"

\* C27: in every cached version descriptor, UseBearer implies UseUsername:
\* no reachable state has a client that sends the token in the bearer
\* header while logging in with the "user" credential field.
C27_BearerImpliesUsername ==
    /\ api.versionInfo # Nil =>
          (api.versionInfo[1].UseBearer => api.versionInfo[1].UseUsername)
    /\ last.pre.versionInfo # Nil =>
          (last.pre.versionInfo[1].UseBearer => last.pre.versionInfo[1].UseUsername)
    /\ \A e \in Sent :
          (e.body.method = UserLogin /\ "user" \in ParamKeys(e.body.params)) =>
              /\ e.versionInfo # Nil
              /\ ~e.versionInfo[1].UseBearer
    /\ \A e \in Sent :
          e.authorization # Nil =>
              /\ e.versionInfo # Nil
              /\ e.versionInfo[1].UseUsername

\* Login against a 7.2 server: the descriptor has both flags and the login
\* carries the "username" field.
C27_Witness ==
    /\ last.op = "Login"
    /\ last.srv = <<7, 2>>
    /\ api.versionInfo # Nil
    /\ api.versionInfo[1].UseBearer
    /\ api.versionInfo[1].UseUsername
    /\ \E e \in Sent :
          e.body.method = UserLogin /\ "username" \in ParamKeys(e.body.params)

\* A call with the token in the bearer header, after SetAuth against an 8.0
\* server.
C27_WitnessHeader ==
    /\ last.op \in {"Call", "CallWithError"}
    /\ last.srv = <<8, 0>>
    /\ \E e \in Sent : e.authorization # Nil /\ e.versionInfo[1].UseUsername

\* C28: when the active token is empty, every request is sent with neither
\* an Authorization header nor an auth field in the JSON body, in bearer
\* mode and in body-auth mode alike.
C28_NothingWithoutToken ==
    \A e \in Sent :
        e.Auth = EmptyString => e.authorization = Nil /\ e.body.auth = Nil

\* A request other than the version query, sent without token by a client
\* in bearer mode.
C28_Witness ==
    \E e \in Sent :
        /\ ~IsVersionQuery(e)
        /\ e.Auth = EmptyString
        /\ e.versionInfo # Nil
        /\ e.versionInfo[1].UseBearer
        /\ e.authorization = Nil

\* The same by a client in body-auth mode.
C28_WitnessBody ==
    \E e \in Sent :
        /\ ~IsVersionQuery(e)
        /\ e.Auth = EmptyString
        /\ e.versionInfo # Nil
        /\ ~e.versionInfo[1].UseBearer
        /\ e.body.auth = Nil

\* The last invocation got a well-formed envelope with no error field
\* whose result is not a string.
NonStringAnswered ==
    \E e \in Sent :
        /\ e.reply.json = "envelope"
        /\ e.reply.error = Nil
        /\ e.reply.result.t # "string"

\* C29 as stated: for every well-formed response envelope, one with no
\* error field whose result is not a string included, Version and Login
\* finish by returning a value with a nil error or a non-nil error; neither
\* aborts the caller, and neither changes the token or the descriptor in
\* that case.
C29_AsStated ==
    last.op \in {"Version", "Login"} =>
        /\ last.panic = NoPanic
        /\ NonStringAnswered =>
              /\ api.Auth = last.pre.Auth
              /\ last.op = "Version" => api.versionInfo = last.pre.versionInfo

\* C30: when the version query inside SetAuth(token) fails, SetAuth returns
\* the error, the active token is nonetheless token, and the cached version
\* descriptor is exactly what it was before the call; the next non-version
\* call on a client with an unset descriptor then starts with the version
\* query again.
C30_TokenStaysOnFailure ==
    /\ (last.op = "SetAuth" /\ (last.err # NoErr \/ last.panic # NoPanic)) =>
          /\ api.Auth = last.arg
          /\ api.versionInfo = last.pre.versionInfo
          /\ \A e \in Sent : IsVersionQuery(e) /\ ~Detected(e)
    /\ (last.op = "SetAuth" /\ last.err = NoErr /\ last.panic = NoPanic) =>
          /\ api.Auth = last.arg
          /\ api.versionInfo # Nil
    /\ (last.op \in OrdinaryOps /\ last.method # APIInfoVersion
            /\ last.pre.versionInfo = Nil /\ last.wire # <<>>) =>
          IsVersionQuery(last.wire[1])

\* SetAuth of a token on a fresh client, the version query failing on the
\* network: the error is returned, the token is installed, no descriptor.
C30_Witness ==
    /\ last.op = "SetAuth"
    /\ last.err = TransportErr
    /\ last.arg = Token1
    /\ last.pre.Auth = EmptyString
    /\ last.pre.versionInfo = Nil
    /\ api.Auth = Token1
    /\ api.versionInfo = Nil

\* The call after it: the client holds the token and no descriptor, and
\* the call starts with the version query, succeeds in it and goes on.
C30_WitnessRetried ==
    /\ last.op \in {"Call", "CallWithError"}
    /\ last.method # APIInfoVersion
    /\ last.pre.Auth = Token1
    /\ last.pre.versionInfo = Nil
    /\ Len(last.wire) = 2
    /\ IsVersionQuery(last.wire[1])
    /\ api.versionInfo # Nil

\* SetAuth failing on a client with a cached descriptor: the descriptor is
\* kept and the token replaced.
C30_WitnessCached ==
    /\ last.op = "SetAuth"
    /\ last.err # NoErr
    /\ last.pre.versionInfo # Nil
    /\ last.arg # last.pre.Auth
    /\ api.Auth = last.arg
    /\ api.versionInfo = last.pre.versionInfo

====
